---- MODULE Spec2Model ----
(***************************************************************************)
(* A model of the LuaInterpreter repository: the recursive-descent Parser  *)
(* (src/src/Parser.ts) and the tree-walking Interpreter                     *)
(* (src/unnamed/part_007, imported by the entry point as                    *)
(* ./src/Interpreter).                                                      *)
(*                                                                         *)
(* A program is given either as the tokens of its text, which the Parser   *)
(* turns into top-level AST nodes one statement per step, or directly as   *)
(* its AST.                                                                *)
(* The Interpreter's constructor installs the builtins and then interprets *)
(* the top-level nodes one after the other in the global Environment; the  *)
(* model takes one step per top-level node.  Everything a node does        *)
(* (nested statements, calls, loops) happens inside that step and is       *)
(* computed by the recursive operators below, which mirror the methods of  *)
(* the class one to one and thread the interpreter's heap (environments,   *)
(* tables, function values, builtin closures, console output) through.     *)
(***************************************************************************)
EXTENDS Integers, Sequences, FiniteSets, TLC

VARIABLES
  scenario,   \* the input: which program is given
  parser,     \* the Parser object, see Parser(tokens)
  nodes,      \* Interpreter.nodes: the top-level AST nodes
  ip,         \* number of top-level nodes the constructor loop has finished
  st,         \* the interpreter's heap, see EmptyHeap
  thrown,     \* what escaped the constructor: "none", or the signal / error
  phase       \* "parsing" | "new" | "running" | "done" | "thrown"

vars == <<scenario, parser, nodes, ip, st, thrown, phase>>

-----------------------------------------------------------------------------
(* Bounds of the model *)

\* A loop is cut after this many iterations (outcome "timeout"): the code
\* itself has no such limit, a loop that never ends simply never returns.
MaxIterations == 12
\* Longest sequence of closure / iterator calls a scenario makes.
MaxCalls == 3
\* Longest sequence of table insertions a scenario makes.
MaxInserts == 3

-----------------------------------------------------------------------------
(* Runtime values: the RuntimeValue union.  Every value is a record        *)
(* [k, v]: k is the runtime kind, v the payload.  Tables, user functions   *)
(* and builtin functions are objects: v is the object's identity, an index *)
(* into the heap.  A MultipleValue carries its values array.               *)

Nil == [k |-> "nil", v |-> 0]
Bool(b) == [k |-> "boolean", v |-> b]
Num(n) == [k |-> "number", v |-> n]
Str(s) == [k |-> "string", v |-> s]
TableRef(i) == [k |-> "table", v |-> i]
FunctionRef(i) == [k |-> "function", v |-> i]
BuiltinRef(i) == [k |-> "builtin", v |-> i]
MultipleValue(vals) == [k |-> "multipleValue", v |-> vals]

isFunction(value) == value.k \in {"function", "builtin"}
isTable(value) == value.k = "table"
isMultipleValue(value) == value.k = "multipleValue"
isPrimitive(value) == value.k \in {"nil", "string", "number", "boolean"}
isNumber(value) == value.k = "number"

\* JavaScript's ToBoolean, which the interpreter applies to runtime values
\* in `&&`, `||`, `!`, `while (...)` and `if (...)`.
jsTruthy(value) ==
  CASE value.k = "nil" -> FALSE
    [] value.k = "boolean" -> value.v
    [] value.k = "number" -> value.v # 0
    [] value.k = "string" -> value.v # ""
    [] OTHER -> TRUE

-----------------------------------------------------------------------------
(* The heap *)

Environment(parent) == [parent |-> parent, values |-> <<>>]

\* envs[1] is Interpreter.globalEnv; parent 0 stands for "no parent".
EmptyHeap ==
  [ envs |-> <<Environment(0)>>,
    tables |-> <<>>,
    funcs |-> <<>>,
    builtins |-> <<>>,
    out |-> <<>> ]

globalEnv == 1

\* The outcome of executing a statement or evaluating an expression:
\* sig = "normal", or what was thrown: "break" (BreakSignal), "return"
\* (ReturnSignal, val its value), "error" (an Error, val its message), or
\* "timeout" (the model's cut of a loop that has not ended).
Outcome(s, sig, val) == [st |-> s, sig |-> sig, val |-> val]
Normal(s, val) == Outcome(s, "normal", val)
Throw(s, msg) == Outcome(s, "error", Str(msg))
Abrupt(r) == r.sig # "normal"

newEnvironment(s, parent) == [s EXCEPT !.envs = Append(@, Environment(parent))]
lastEnvironment(s) == Len(s.envs)

define(s, env, name, value) ==
  [s EXCEPT !.envs[env].values = (name :> value) @@ @]

RECURSIVE has(_, _, _)
has(s, env, name) ==
  IF name \in DOMAIN s.envs[env].values THEN TRUE
  ELSE IF s.envs[env].parent # 0 THEN has(s, s.envs[env].parent, name)
  ELSE FALSE

\* An assignment that binds in the environment it is executed in, whatever
\* the chain holds.
assign_define(s, env, name, value) ==
  [s EXCEPT !.envs[env].values = (name :> value) @@ @]

RECURSIVE assign(_, _, _, _)
assign(s, env, name, value) ==
  IF name \in DOMAIN s.envs[env].values
    THEN [s EXCEPT !.envs[env].values[name] = value]
  ELSE IF s.envs[env].parent # 0
    THEN assign(s, s.envs[env].parent, name, value)
  ELSE [s EXCEPT !.envs[env].values = (name :> value) @@ @]

RECURSIVE lookup(_, _, _)
lookup(s, env, name) ==
  IF name \in DOMAIN s.envs[env].values
    THEN Normal(s, s.envs[env].values[name])
  ELSE IF s.envs[env].parent # 0
    THEN lookup(s, s.envs[env].parent, name)
  ELSE Throw(s, "Undefined variable")

-----------------------------------------------------------------------------
(* Table entries: a JavaScript Map, kept as the sequence of its entries in *)
(* insertion order.  Map compares keys by SameValueZero: primitives by     *)
(* value, objects by identity.                                             *)

sameValue(a, b) == a.k = b.k /\ a.v = b.v

entriesHas(entries, key) ==
  \E i \in 1..Len(entries) : sameValue(entries[i].key, key)

entriesIndex(entries, key) ==
  CHOOSE i \in 1..Len(entries) : sameValue(entries[i].key, key)

\* Map.prototype.get: the value, or undefined (here Nil: every caller
\* applies `?? null` or only reads keys that are present).
entriesGet(entries, key) ==
  IF entriesHas(entries, key) THEN entries[entriesIndex(entries, key)].value
  ELSE Nil

\* Map.prototype.set: an existing key keeps its position.
entriesSet(entries, key, value) ==
  IF entriesHas(entries, key)
    THEN [entries EXCEPT ![entriesIndex(entries, key)].value = value]
  ELSE Append(entries, [key |-> key, value |-> value])

entriesKeys(entries) == [i \in 1..Len(entries) |-> entries[i].key]

newTable(s) == [s EXCEPT !.tables = Append(@, <<>>)]
lastTable(s) == Len(s.tables)
tableSet(s, t, key, value) ==
  [s EXCEPT !.tables[t] = entriesSet(@, key, value)]

\* A lookup that takes any stored table for a table key and any stored
\* function for a function key.
getFromTable_byKind(s, table, key) ==
  LET entries == s.tables[table.v]
      alike == {i \in 1..Len(entries) : entries[i].key.k = key.k} IN
  IF key.k \in {"table", "function"} /\ alike # {}
    THEN entries[CHOOSE i \in alike : \A j \in alike : i <= j].value
  ELSE entriesGet(entries, key)

getFromTable(s, table, key) == entriesGet(s.tables[table.v], key)

-----------------------------------------------------------------------------
(* AST nodes, with the field names of the node interfaces of Parser.ts.    *)
(* A literal's value is kept as the runtime value it denotes.  An If       *)
(* node's `else` is null, another If node or a statement list: NoElse,     *)
(* ElseIf(node), ElseList(body).                                           *)

Literal(value) == [type |-> "Literal", value |-> value]
Identifier(name) == [type |-> "Identifier", name |-> name]
MultipleValueNode(values) == [type |-> "MultipleValue", values |-> values]
VariableDeclaration(identifier, value) ==
  [type |-> "VariableDeclaration", identifier |-> identifier, value |-> value]
Assignment(left, right) ==
  [type |-> "Assignment", operator |-> "=", left |-> left, right |-> right]
Parameter(name, defaultValue) ==
  [type |-> "Parameter", name |-> Identifier(name), defaultValue |-> defaultValue]
NamedFunction(name, params, body, local) ==
  [type |-> "Function", params |-> params, body |-> body, local |-> local,
   anonymous |-> FALSE, name |-> Identifier(name)]
AnonymousFunction(params, body) ==
  [type |-> "Function", params |-> params, body |-> body, local |-> FALSE,
   anonymous |-> TRUE]
ExpressionCall(id, params) ==
  [type |-> "ExpressionCall", id |-> id, params |-> params]
TableNode(properties) == [type |-> "Table", properties |-> properties]
TableListItem(value) == [type |-> "TableListItem", value |-> value]
TableDictItem(key, value) ==
  [type |-> "TableDictItem", key |-> key, value |-> value]
IndexProperty(table, property) ==
  [type |-> "IndexProperty", table |-> table, property |-> property]
BreakNode == [type |-> "Break"]
ReturnNode(value) == [type |-> "Return", value |-> value]
BinaryExpression(operator, left, right) ==
  [type |-> "BinaryExpression", operator |-> operator, left |-> left,
   right |-> right]
LogicalExpression(operator, left, right) ==
  [type |-> "LogicalExpression", operator |-> operator, left |-> left,
   right |-> right]
NotExpression(operand) == [type |-> "NotExpression", operand |-> operand]
LengthExpression(operand) == [type |-> "LengthExpression", operand |-> operand]
ConcatExpression(left, right) ==
  [type |-> "ConcatExpression", left |-> left, right |-> right]
NoElse == [else |-> "null"]
ElseIf(node) == [else |-> "If", node |-> node]
ElseList(body) == [else |-> "list", body |-> body]
IfNode(condition, body, else) ==
  [type |-> "If", condition |-> condition, body |-> body, else |-> else]
NoStep == [step |-> "null"]
Step(node) == [step |-> "value", node |-> node]
NumericFor(variable, start, end, step, body) ==
  [type |-> "NumericFor", variable |-> Identifier(variable), start |-> start,
   end |-> end, step |-> step, body |-> body]
GenericFor(variables, iterator, body) ==
  [type |-> "GenericFor", variables |-> variables, iterator |-> iterator,
   body |-> body]
WhileNode(condition, body) ==
  [type |-> "While", condition |-> condition, body |-> body]
RepeatNode(body, condition) ==
  [type |-> "Repeat", body |-> body, condition |-> condition]

-----------------------------------------------------------------------------
(* The Interpreter (src/unnamed/part_007).  Each method takes the heap as  *)
(* its last argument and yields an Outcome.                                *)

\* Every recursive call of this.interpretNode, this.evaluateValue and
\* this.callFunction is made through Interpret, Evaluate and Call, which
\* enter the one operator Recurse defined after the interpreter.
RECURSIVE Recurse(_, _)
Interpret(node, env, s) == Recurse("interpretNode", <<node, env, s>>)
Evaluate(node, env, s) == Recurse("evaluateValue", <<node, env, s>>)
Call(fn, args, s) == Recurse("callFunction", <<fn, args, s>>)

RECURSIVE interpretNode(_, _, _), evaluateValue(_, _, _),
          interpretStatements(_, _, _, _), evaluateList(_, _, _, _, _),
          interpretAssignment(_, _, _), interpretNumericFor(_, _, _),
          numericForLoop(_, _, _, _, _, _, _), interpretGenericFor(_, _, _),
          genericForLoop(_, _, _, _, _, _), interpretWhile(_, _, _),
          whileLoop(_, _, _, _), interpretRepeat(_, _, _),
          repeatLoop(_, _, _, _), interpretIf(_, _, _),
          assignMultipleValues(_, _, _, _), assignTargets(_, _, _, _, _),
          interpretVariableDeclaration(_, _, _),
          interpretFunctionDeclaration(_, _, _),
          interpretExpressionCall(_, _, _),
          evaluateIdentifierResolvable(_, _, _), resolveIndexProperty(_, _, _),
          callFunction(_, _, _), callUserFunction(_, _, _),
          bindParams(_, _, _, _, _), buildTable(_, _, _),
          buildTableItems(_, _, _, _, _, _), evaluateTableKey(_, _, _),
          evaluateBinaryExpression(_, _, _),
          evaluateLogicalExpression(_, _, _), evaluateConcat(_, _, _),
          evaluateLength(_, _, _), renderValue(_, _), renderEntries(_, _, _)

\* `for (const statement of body) this.interpretNode(statement, env)`: a
\* thrown signal or error leaves the loop.
interpretStatements(body, i, env, s) ==
  IF i > Len(body) THEN Normal(s, Nil)
  ELSE LET r == Interpret(body[i], env, s) IN
       IF Abrupt(r) THEN r ELSE interpretStatements(body, i + 1, env, r.st)

\* `list.map(n => this.evaluateValue(n, env))`; val is the array so far.
evaluateList(list, i, env, s, acc) ==
  IF i > Len(list) THEN Normal(s, acc)
  ELSE LET r == Evaluate(list[i], env, s) IN
       IF Abrupt(r) THEN r
       ELSE evaluateList(list, i + 1, env, r.st, Append(acc, r.val))

resolveIdentifier(node, env, s) == lookup(s, env, node.name)

\* Anything but an Identifier is handed to resolveIndexProperty, which reads
\* node.table: for a node without one that is a TypeError.
evaluateIdentifierResolvable(node, env, s) ==
  IF node.type = "Identifier" THEN resolveIdentifier(node, env, s)
  ELSE IF node.type = "IndexProperty" THEN resolveIndexProperty(node, env, s)
  ELSE Throw(s, "TypeError: Cannot read properties of undefined")

resolveIndexProperty(node, env, s) ==
  LET tv == evaluateIdentifierResolvable(node.table, env, s) IN
  IF Abrupt(tv) THEN tv
  ELSE IF ~isTable(tv.val) THEN Throw(tv.st, "Attempt to index a non-table value")
  ELSE LET kv == IF node.property.type = "Identifier"
                   THEN Normal(tv.st, Str(node.property.name))
                 ELSE Evaluate(node.property, env, tv.st) IN
       IF Abrupt(kv) THEN kv
       ELSE Normal(kv.st, getFromTable(kv.st, tv.val, kv.val))

createUserFunction(node, env, s) ==
  Normal([s EXCEPT !.funcs = Append(@, [node |-> node, closure |-> env])],
         FunctionRef(Len(s.funcs) + 1))

\* The loop without the splice: a MultipleValue among the values gives its
\* first value only.
assignTargets_first(targets, vals, i, env, s) ==
  IF i > Len(targets) THEN Normal(s, Nil)
  ELSE LET value == IF i <= Len(vals) THEN vals[i] ELSE Nil
           first == IF isMultipleValue(value)
                      THEN (IF Len(value.v) > 0 THEN value.v[1] ELSE Nil)
                    ELSE value
       IN assignTargets(targets, vals, i + 1, env,
                        define(s, env, targets[i].name, first))

\* The loop `for (let i = 0; i < targets.length; i++)` of
\* assignMultipleValues; vals is values.values, spliced as the loop goes.
assignTargets(targets, vals, i, env, s) ==
  IF i > Len(targets) THEN Normal(s, Nil)
  ELSE LET value == IF i <= Len(vals) THEN vals[i] ELSE Nil
           spliced == IF isMultipleValue(value)
                        THEN SubSeq(vals, 1, i) \o Tail(value.v)
                               \o SubSeq(vals, i + 1, Len(vals))
                      ELSE vals
           first == IF isMultipleValue(value)
                      THEN (IF Len(value.v) > 0 THEN value.v[1] ELSE Nil)
                    ELSE value
       IN assignTargets(targets, spliced, i + 1, env,
                        define(s, env, targets[i].name, first))

\* `values.values` is an array only for a MultipleValue; for every other
\* value the method throws (an Error, or a TypeError for null).
assignMultipleValues(targets, values, env, s) ==
  IF ~isMultipleValue(values) THEN Throw(s, "Targets and values must be arrays")
  ELSE assignTargets(targets, values.v, 1, env, s)

interpretVariableDeclaration(node, env, s) ==
  LET rv == Evaluate(node.value, env, s) IN
  IF Abrupt(rv) THEN rv
  ELSE IF node.identifier.type = "MultipleValue"
    THEN LET a == assignMultipleValues(node.identifier.values, rv.val, env, rv.st)
         IN IF Abrupt(a) THEN a ELSE Normal(a.st, rv.val)
  ELSE Normal(define(rv.st, env, node.identifier.name, rv.val), rv.val)

interpretFunctionDeclaration(node, env, s) ==
  LET fn == createUserFunction(node, env, s) IN
  IF "name" \in DOMAIN node
    THEN LET targetEnv == IF node.local THEN env ELSE globalEnv
             name == node.name.name
         IN IF has(fn.st, targetEnv, name)
              THEN Normal(assign(fn.st, targetEnv, name, fn.val), fn.val)
            ELSE Normal(define(fn.st, targetEnv, name, fn.val), fn.val)
  ELSE fn

\* A call under dynamic scoping: the callee runs under the caller's
\* environment.
interpretExpressionCall_dynamic(node, env, s) ==
  LET callable == evaluateIdentifierResolvable(node.id, env, s) IN
  IF Abrupt(callable) THEN callable
  ELSE IF ~isFunction(callable.val)
    THEN Throw(callable.st, "Attempt to call a non-function value")
  ELSE LET args == evaluateList(node.params, 1, env, callable.st, <<>>) IN
       IF Abrupt(args) THEN args
       ELSE IF callable.val.k = "function"
         THEN Call(callable.val, args.val,
                   [args.st EXCEPT !.funcs[callable.val.v].closure = env])
       ELSE Call(callable.val, args.val, args.st)

interpretExpressionCall(node, env, s) ==
  LET callable == evaluateIdentifierResolvable(node.id, env, s) IN
  IF Abrupt(callable) THEN callable
  ELSE IF ~isFunction(callable.val)
    THEN Throw(callable.st, "Attempt to call a non-function value")
  ELSE LET args == evaluateList(node.params, 1, env, callable.st, <<>>) IN
       IF Abrupt(args) THEN args
       ELSE Call(callable.val, args.val, args.st)

\* case ASTNodeType.Assignment of interpretNode.
interpretAssignment(node, env, s) ==
  LET rv == Evaluate(node.right, env, s) IN
  IF Abrupt(rv) THEN rv
  ELSE IF node.left.type = "Identifier"
    THEN Normal(assign(rv.st, env, node.left.name, rv.val), rv.val)
  ELSE IF node.left.type = "IndexProperty"
    THEN LET tv == evaluateIdentifierResolvable(node.left.table, env, rv.st) IN
         IF Abrupt(tv) THEN tv
         ELSE IF ~isTable(tv.val)
           THEN Throw(tv.st, "Attempt to index a non-table value")
         ELSE LET kv == IF node.left.property.type = "Identifier"
                          THEN Normal(tv.st, Str(node.left.property.name))
                        ELSE Evaluate(node.left.property, env, tv.st) IN
              IF Abrupt(kv) THEN kv
              ELSE Normal(tableSet(kv.st, tv.val.v, kv.val, rv.val), rv.val)
  ELSE IF node.left.type = "MultipleValue"
    THEN LET ev == Evaluate(node.right, env, rv.st) IN
         IF Abrupt(ev) THEN ev
         ELSE IF ~isMultipleValue(ev.val)
           THEN Throw(ev.st, "Right-hand side does not evaluate to multiple values")
         ELSE IF Len(node.left.values) # Len(ev.val.v)
           THEN Throw(ev.st, "Mismatched number of values in multiple assignment")
         ELSE LET a == assignMultipleValues(node.left.values, ev.val, env, ev.st)
              IN IF Abrupt(a) THEN a ELSE Normal(a.st, rv.val)
  ELSE Normal(rv.st, rv.val)

\* A loop that lets the BreakSignal through.
catchBreakSignal_rethrow(r) ==
  IF r.sig = "normal" THEN Normal(r.st, Nil) ELSE r

\* `catch (error) { if (error instanceof BreakSignal) return; throw error }`
\* followed by `return`, as every loop statement ends.
catchBreakSignal(r) ==
  IF r.sig \in {"break", "normal"} THEN Normal(r.st, Nil) ELSE r

\* The body of `for (let i = start; step > 0 ? i <= end : i >= end; i += step)`;
\* n counts the iterations made.
numericForLoop(node, i, end, step, env, s, n) ==
  IF ~(IF step > 0 THEN i <= end ELSE i >= end) THEN Normal(s, Nil)
  ELSE IF n >= MaxIterations THEN Outcome(s, "timeout", Nil)
  ELSE LET s1 == newEnvironment(s, env)
           loopEnv == lastEnvironment(s1)
           s2 == define(s1, loopEnv, node.variable.name, Num(i))
           b == interpretStatements(node.body, 1, loopEnv, s2)
       IN IF Abrupt(b) THEN b
          ELSE numericForLoop(node, i + step, end, step, env, b.st, n + 1)

interpretNumericFor(node, env, s) ==
  catchBreakSignal(
    LET start == Evaluate(node.start, env, s) IN
    IF Abrupt(start) THEN start ELSE
    LET end == Evaluate(node.end, env, start.st) IN
    IF Abrupt(end) THEN end ELSE
    LET step == IF node.step.step = "value"
                  THEN Evaluate(node.step.node, env, end.st)
                ELSE Normal(end.st, Num(1)) IN
    IF Abrupt(step) THEN step
    ELSE IF ~isNumber(start.val) \/ ~isNumber(end.val) \/ ~isNumber(step.val)
      THEN Throw(step.st, "Numeric for loop expects numeric start, end, and step values")
    ELSE numericForLoop(node, start.val.v, end.val.v, step.val.v, env, step.st, 0))

\* The body of `while (true)` of the generic for; the arguments of the
\* iterator call are the parameters of the iterator expression, evaluated
\* again in every round.
genericForLoop(node, iterator, loopEnv, env, s, n) ==
  IF n >= MaxIterations THEN Outcome(s, "timeout", Nil)
  ELSE IF "params" \notin DOMAIN node.iterator
    THEN Throw(s, "TypeError: Cannot read properties of undefined (reading 'map')")
  ELSE LET args == evaluateList(node.iterator.params, 1, env, s, <<>>) IN
       IF Abrupt(args) THEN args ELSE
       LET result == Call(iterator, args.val, args.st) IN
       IF Abrupt(result) THEN result
       ELSE IF result.val.k = "nil" THEN Normal(result.st, Nil)
       ELSE LET bound ==
                  IF isMultipleValue(result.val)
                    THEN assignMultipleValues(node.variables, result.val,
                                              loopEnv, result.st)
                  ELSE Normal(
                         [result.st EXCEPT !.envs[loopEnv].values =
                            [name \in {node.variables[j].name :
                                         j \in 1..Len(node.variables)}
                               |-> result.val] @@ @],
                         Nil) IN
            IF Abrupt(bound) THEN bound ELSE
            LET b == interpretStatements(node.body, 1, loopEnv, bound.st) IN
            IF Abrupt(b) THEN b
            ELSE genericForLoop(node, iterator, loopEnv, env, b.st, n + 1)

interpretGenericFor(node, env, s) ==
  catchBreakSignal(
    LET iterator == Evaluate(node.iterator, env, s) IN
    IF Abrupt(iterator) THEN iterator
    ELSE IF ~isFunction(iterator.val)
      THEN Throw(iterator.st, "Generic for loop iterator is not a function")
    ELSE LET s1 == newEnvironment(iterator.st, env) IN
         genericForLoop(node, iterator.val, lastEnvironment(s1), env, s1, 0))

whileLoop(node, env, s, n) ==
  LET c == Evaluate(node.condition, env, s) IN
  IF Abrupt(c) THEN c
  ELSE IF ~jsTruthy(c.val) THEN Normal(c.st, Nil)
  ELSE IF n >= MaxIterations THEN Outcome(c.st, "timeout", Nil)
  ELSE LET s1 == newEnvironment(c.st, env)
           b == interpretStatements(node.body, 1, lastEnvironment(s1), s1)
       IN IF Abrupt(b) THEN b ELSE whileLoop(node, env, b.st, n + 1)

interpretWhile(node, env, s) == catchBreakSignal(whileLoop(node, env, s, 0))

repeatLoop(node, env, s, n) ==
  IF n >= MaxIterations THEN Outcome(s, "timeout", Nil)
  ELSE LET s1 == newEnvironment(s, env)
           b == interpretStatements(node.body, 1, lastEnvironment(s1), s1)
       IN IF Abrupt(b) THEN b ELSE
          LET c == Evaluate(node.condition, env, b.st) IN
          IF Abrupt(c) THEN c
          ELSE IF ~jsTruthy(c.val) THEN repeatLoop(node, env, c.st, n + 1)
          ELSE Normal(c.st, Nil)

interpretRepeat(node, env, s) == catchBreakSignal(repeatLoop(node, env, s, 0))

\* An if that goes on to its else branch after the body of a truthy
\* condition.
interpretIf_fallthrough(node, env, s) ==
  LET c == Evaluate(node.condition, env, s) IN
  IF Abrupt(c) THEN c
  ELSE LET b == IF jsTruthy(c.val)
                  THEN interpretStatements(node.body, 1, env, c.st)
                ELSE Normal(c.st, Nil) IN
       IF Abrupt(b) THEN b
       ELSE LET r == IF node.else.else = "If"
                       THEN Interpret(node.else.node, env, b.st)
                     ELSE IF node.else.else = "list"
                       THEN interpretStatements(node.else.body, 1, env, b.st)
                     ELSE Normal(b.st, Nil)
            IN IF Abrupt(r) THEN r ELSE Normal(r.st, Nil)

\* case ASTNodeType.If of interpretNode; the bodies run in env itself.
interpretIf(node, env, s) ==
  LET c == Evaluate(node.condition, env, s) IN
  IF Abrupt(c) THEN c
  ELSE LET r == IF jsTruthy(c.val)
                  THEN interpretStatements(node.body, 1, env, c.st)
                ELSE IF node.else.else = "If"
                  THEN Interpret(node.else.node, env, c.st)
                ELSE IF node.else.else = "list"
                  THEN interpretStatements(node.else.body, 1, env, c.st)
                ELSE Normal(c.st, Nil)
       IN IF Abrupt(r) THEN r ELSE Normal(r.st, Nil)

\* A call that runs in the captured environment itself.
newActivation_shared(fn, s) ==
  [st |-> s, env |-> s.funcs[fn.v].closure]

\* `const activationEnv = new Environment(fn.closure)`.
newActivation(fn, s) ==
  [st |-> newEnvironment(s, s.funcs[fn.v].closure), env |-> Len(s.envs) + 1]

\* `fn.node.params.forEach(...)`: a missing argument is the parameter's
\* default value, evaluated in the activation environment.
bindParams(params, args, i, activationEnv, s) ==
  IF i > Len(params) THEN Normal(s, Nil)
  ELSE LET value == IF i <= Len(args) THEN Normal(s, args[i])
                    ELSE Evaluate(params[i].defaultValue, activationEnv, s)
       IN IF Abrupt(value) THEN value
          ELSE bindParams(params, args, i + 1, activationEnv,
                          define(value.st, activationEnv, params[i].name.name,
                                 value.val))

callUserFunction(fn, args, s) ==
  LET a == newActivation(fn, s)
      node == s.funcs[fn.v].node
      p == bindParams(node.params, args, 1, a.env, a.st)
  IN IF Abrupt(p) THEN p
     ELSE LET b == interpretStatements(node.body, 1, a.env, p.st) IN
          IF b.sig = "return" THEN Normal(b.st, b.val)
          ELSE IF Abrupt(b) THEN b
          ELSE Normal(b.st, Nil)

renderEntries(entries, i, s) ==
  IF i > Len(entries) THEN ""
  ELSE LET key == entries[i].key
           renderTableKey ==
             CASE key.k = "nil" -> "nil"
               [] key.k = "string" -> key.v
               [] key.k = "number" -> "[" \o ToString(key.v) \o "]"
               [] key.k = "boolean" -> IF key.v THEN "[true]" ELSE "[false]"
               [] isFunction(key) -> "[function]"
               [] isTable(key) -> "[table]"
               [] OTHER -> "[unknown]"
       IN renderTableKey \o " = " \o renderValue(entries[i].value, s)
            \o (IF i < Len(entries) THEN ", " ELSE "")
            \o renderEntries(entries, i + 1, s)

renderValue(value, s) ==
  CASE value.k = "nil" -> "nil"
    [] value.k = "string" -> value.v
    [] value.k = "number" -> ToString(value.v)
    [] value.k = "boolean" -> (IF value.v THEN "true" ELSE "false")
    [] value.k = "builtin" -> "[builtin " \o s.builtins[value.v].name \o "]"
    [] value.k = "function" -> "[function]"
    [] value.k = "table" -> "{" \o renderEntries(s.tables[value.v], 1, s) \o "}"
    [] OTHER -> "[unknown]"

RECURSIVE joinRendered(_, _, _)
joinRendered(args, i, s) ==
  IF i > Len(args) THEN ""
  ELSE renderValue(args[i], s) \o (IF i < Len(args) THEN "\t" ELSE "")
         \o joinRendered(args, i + 1, s)

\* The builtin closures: impl names the closure's code, table and index
\* are the variables an iterator closure captured.
BuiltinObject(name, impl, table, index) ==
  [name |-> name, impl |-> impl, table |-> table, index |-> index]

printImpl(args, s) ==
  Normal([s EXCEPT !.out = Append(@, joinRendered(args, 1, s))], Nil)

\* A pairs that hands out the iterator it made before for the same table.
pairsImpl_shared(args, s) ==
  IF Len(args) = 0 \/ ~isTable(args[1])
    THEN Throw(s, "pairs expects a table as its first argument")
  ELSE IF \E b \in 1..Len(s.builtins) :
            s.builtins[b].impl = "pairs_iterator" /\ s.builtins[b].table = args[1].v
    THEN Normal(s, BuiltinRef(CHOOSE b \in 1..Len(s.builtins) :
                                /\ s.builtins[b].impl = "pairs_iterator"
                                /\ s.builtins[b].table = args[1].v))
  ELSE Normal([s EXCEPT !.builtins =
                 Append(@, BuiltinObject("ipairs_iterator", "pairs_iterator",
                                         args[1].v, 0))],
              BuiltinRef(Len(s.builtins) + 1))

pairsImpl(args, s) ==
  IF Len(args) = 0 \/ ~isTable(args[1])
    THEN Throw(s, "pairs expects a table as its first argument")
  ELSE Normal([s EXCEPT !.builtins =
                 Append(@, BuiltinObject("ipairs_iterator", "pairs_iterator",
                                         args[1].v, 0))],
              BuiltinRef(Len(s.builtins) + 1))

ipairsImpl(args, s) ==
  IF Len(args) = 0 \/ ~isTable(args[1])
    THEN Throw(s, "ipairs expects a table as its first argument")
  ELSE Normal([s EXCEPT !.builtins =
                 Append(@, BuiltinObject("ipairs_iterator", "ipairs_iterator",
                                         args[1].v, 0))],
              BuiltinRef(Len(s.builtins) + 1))

\* An iterator that walks the keys from the last inserted to the first.
pairsIterator_reversed(self, s) ==
  LET entries == s.tables[s.builtins[self].table]
      keys == entriesKeys(entries)
      index == s.builtins[self].index
  IN IF index <= Len(keys) - 1
       THEN Normal([s EXCEPT !.builtins[self].index = index + 1],
                   MultipleValue(<<keys[Len(keys) - index],
                                   entriesGet(entries, keys[Len(keys) - index])>>))
     ELSE Normal(s, Nil)

\* The closure returned by pairs: `keys[index]`, then `index++`.
pairsIterator(self, s) ==
  LET entries == s.tables[s.builtins[self].table]
      keys == entriesKeys(entries)
      index == s.builtins[self].index
  IN IF index <= Len(keys) - 1
       THEN Normal([s EXCEPT !.builtins[self].index = index + 1],
                   MultipleValue(<<keys[index + 1],
                                   entriesGet(entries, keys[index + 1])>>))
     ELSE Normal(s, Nil)

\* An iterator that goes on to the next integer key present, over a gap.
ipairsIterator_skipping(self, s) ==
  LET entries == s.tables[s.builtins[self].table]
      present == {i \in (s.builtins[self].index + 1)..(s.builtins[self].index + 4) :
                    entriesHas(entries, Num(i))}
      index == IF present = {} THEN s.builtins[self].index + 1
               ELSE CHOOSE i \in present : \A j \in present : i <= j
      s1 == [s EXCEPT !.builtins[self].index = index]
  IN IF entriesHas(entries, Num(index))
       THEN Normal(s1, MultipleValue(<<Num(index), entriesGet(entries, Num(index))>>))
     ELSE Normal(s1, Nil)

\* The closure returned by ipairs: `index += 1` comes first, on every call.
ipairsIterator(self, s) ==
  LET entries == s.tables[s.builtins[self].table]
      index == s.builtins[self].index + 1
      s1 == [s EXCEPT !.builtins[self].index = index]
  IN IF entriesHas(entries, Num(index))
       THEN Normal(s1, MultipleValue(<<Num(index), entriesGet(entries, Num(index))>>))
     ELSE Normal(s1, Nil)

callBuiltin(fn, args, s) ==
  LET impl == s.builtins[fn.v].impl IN
  CASE impl = "print" -> printImpl(args, s)
    [] impl = "pairs" -> pairsImpl(args, s)
    [] impl = "ipairs" -> ipairsImpl(args, s)
    [] impl = "pairs_iterator" -> pairsIterator(fn.v, s)
    [] impl = "ipairs_iterator" -> ipairsIterator(fn.v, s)

callFunction(fn, args, s) ==
  IF fn.k = "builtin" THEN callBuiltin(fn, args, s)
  ELSE callUserFunction(fn, args, s)

installBuiltins(s) ==
  LET s1 == [s EXCEPT !.builtins =
               @ \o << BuiltinObject("print", "print", 0, 0),
                       BuiltinObject("pairs", "pairs", 0, 0),
                       BuiltinObject("ipairs", "ipairs", 0, 0) >>]
      n == Len(s.builtins)
  IN define(define(define(s1, globalEnv, "print", BuiltinRef(n + 1)),
                   globalEnv, "pairs", BuiltinRef(n + 2)),
            globalEnv, "ipairs", BuiltinRef(n + 3))

evaluateTableKey(item, env, s) ==
  IF item.key.type = "Identifier" THEN Normal(s, Str(item.key.name))
  ELSE Evaluate(item.key, env, s)

\* `for (const property of node.properties)` of buildTable.
buildTableItems(properties, i, sequenceIndex, table, env, s) ==
  IF i > Len(properties) THEN Normal(s, TableRef(table))
  ELSE IF properties[i].type = "TableListItem"
    THEN LET value == Evaluate(properties[i].value, env, s) IN
         IF Abrupt(value) THEN value
         ELSE buildTableItems(properties, i + 1, sequenceIndex + 1, table, env,
                tableSet(value.st, table, Num(sequenceIndex), value.val))
  ELSE LET key == evaluateTableKey(properties[i], env, s) IN
       IF Abrupt(key) THEN key ELSE
       LET value == Evaluate(properties[i].value, env, key.st) IN
       IF Abrupt(value) THEN value
       ELSE buildTableItems(properties, i + 1, sequenceIndex, table, env,
              tableSet(value.st, table, key.val, value.val))

buildTable(node, env, s) ==
  LET s1 == newTable(s) IN
  buildTableItems(node.properties, 1, 1, lastTable(s1), env, s1)

\* Number arithmetic on the integers; a result that is no integer (NaN,
\* Infinity, a fraction) is outside the model: outcome "unmodelled".
abs(n) == IF n < 0 THEN -n ELSE n
jsRemainder(a, b) == IF a < 0 THEN -(abs(a) % abs(b)) ELSE a % abs(b)
RECURSIVE pow(_, _)
pow(a, b) == IF b = 0 THEN 1 ELSE a * pow(a, b - 1)

evaluateBinaryExpression(node, env, s) ==
  LET left == Evaluate(node.left, env, s) IN
  IF Abrupt(left) THEN left ELSE
  LET right == Evaluate(node.right, env, left.st) IN
  IF Abrupt(right) THEN right
  ELSE IF ~isNumber(left.val) \/ ~isNumber(right.val)
    THEN Throw(right.st, "Binary operator expects numeric operands")
  ELSE LET l == left.val.v
           r == right.val.v
           op == node.operator
           t == right.st
       IN CASE op = "+" -> Normal(t, Num(l + r))
            [] op = "-" -> Normal(t, Num(l - r))
            [] op = "*" -> Normal(t, Num(l * r))
            [] op = "/" -> IF r # 0 /\ jsRemainder(l, r) = 0
                             THEN Normal(t, Num((IF (l < 0) = (r < 0) THEN 1 ELSE -1)
                                                  * (abs(l) \div abs(r))))
                           ELSE Outcome(t, "unmodelled", Nil)
            [] op = "%" -> IF r # 0 THEN Normal(t, Num(jsRemainder(l, r)))
                           ELSE Outcome(t, "unmodelled", Nil)
            [] op = "^" -> IF r >= 0 THEN Normal(t, Num(pow(l, r)))
                           ELSE Outcome(t, "unmodelled", Nil)
            [] op = "<" -> Normal(t, Bool(l < r))
            [] op = "<=" -> Normal(t, Bool(l <= r))
            [] op = ">" -> Normal(t, Bool(l > r))
            [] op = ">=" -> Normal(t, Bool(l >= r))
            [] op = "==" -> Normal(t, Bool(l = r))
            [] op = "~=" -> Normal(t, Bool(l # r))
            [] OTHER -> Throw(t, "Unsupported binary operator")

\* Both operands are evaluated, then JavaScript's `&&` / `||` picks one.
evaluateLogicalExpression(node, env, s) ==
  LET left == Evaluate(node.left, env, s) IN
  IF Abrupt(left) THEN left ELSE
  LET right == Evaluate(node.right, env, left.st) IN
  IF Abrupt(right) THEN right
  ELSE CASE node.operator = "and" ->
              Normal(right.st, IF jsTruthy(left.val) THEN right.val ELSE left.val)
         [] node.operator = "or" ->
              Normal(right.st, IF jsTruthy(left.val) THEN left.val ELSE right.val)
         [] OTHER -> Throw(right.st, "Unknown logical operator")

\* case ASTNodeType.ConcatExpression of evaluateValue.
evaluateConcat(node, env, s) ==
  LET left == Evaluate(node.left, env, s) IN
  IF Abrupt(left) THEN left ELSE
  LET right == Evaluate(node.right, env, left.st) IN
  IF Abrupt(right) THEN right
  ELSE IF ~isPrimitive(left.val) \/ ~isPrimitive(right.val)
    THEN Throw(right.st, "Attempt to concatenate non-primitive value")
  ELSE Normal(right.st,
              Str(renderValue(left.val, right.st) \o renderValue(right.val, right.st)))

\* A length that counts every entry of the table.
border_count(entries, index) == Len(entries)

\* case ASTNodeType.LengthExpression of evaluateValue.
RECURSIVE border(_, _)
border(entries, index) ==
  IF entriesHas(entries, Num(index + 1)) THEN border(entries, index + 1)
  ELSE index

evaluateLength(node, env, s) ==
  LET value == Evaluate(node.operand, env, s) IN
  IF Abrupt(value) THEN value
  ELSE IF isTable(value.val)
    THEN Normal(value.st, Num(border(value.st.tables[value.val.v], 0)))
  ELSE IF value.val.k = "string" THEN Normal(value.st, Num(Len(value.val.v)))
  ELSE Throw(value.st, "Attempt to get length of a non-table/non-string value")

evaluateValue(node, env, s) ==
  CASE node.type = "Literal" -> Normal(s, node.value)
    [] node.type = "ConcatExpression" -> evaluateConcat(node, env, s)
    [] node.type = "Identifier" -> resolveIdentifier(node, env, s)
    [] node.type = "Function" -> createUserFunction(node, env, s)
    [] node.type = "Table" -> buildTable(node, env, s)
    [] node.type = "BinaryExpression" -> evaluateBinaryExpression(node, env, s)
    [] node.type = "ExpressionCall" -> interpretExpressionCall(node, env, s)
    [] node.type = "IndexProperty" -> resolveIndexProperty(node, env, s)
    [] node.type = "LogicalExpression" -> evaluateLogicalExpression(node, env, s)
    [] node.type = "NotExpression" ->
         LET v == Evaluate(node.operand, env, s) IN
         IF Abrupt(v) THEN v ELSE Normal(v.st, Bool(~jsTruthy(v.val)))
    [] node.type = "LengthExpression" -> evaluateLength(node, env, s)
    [] node.type = "MultipleValue" ->
         LET vs == evaluateList(node.values, 1, env, s, <<>>) IN
         IF Abrupt(vs) THEN vs ELSE Normal(vs.st, MultipleValue(vs.val))
    [] OTHER -> Throw(s, "Unsupported value node type")

interpretNode(node, env, s) ==
  CASE node.type = "VariableDeclaration" -> interpretVariableDeclaration(node, env, s)
    [] node.type = "Function" -> interpretFunctionDeclaration(node, env, s)
    [] node.type = "ExpressionCall" -> interpretExpressionCall(node, env, s)
    [] node.type = "Table" -> buildTable(node, env, s)
    [] node.type = "Literal" -> Normal(s, node.value)
    [] node.type = "Identifier" -> resolveIdentifier(node, env, s)
    [] node.type = "IndexProperty" -> resolveIndexProperty(node, env, s)
    [] node.type = "Break" -> Outcome(s, "break", Nil)
    [] node.type = "Return" ->
         LET v == Evaluate(node.value, env, s) IN
         IF Abrupt(v) THEN v ELSE Outcome(v.st, "return", v.val)
    [] node.type = "BinaryExpression" -> evaluateBinaryExpression(node, env, s)
    [] node.type \in {"TableDictItem", "TableListItem"} -> Normal(s, Nil)
    [] node.type = "Assignment" -> interpretAssignment(node, env, s)
    [] node.type = "LogicalExpression" -> evaluateLogicalExpression(node, env, s)
    [] node.type \in {"MultipleValue", "NotExpression", "LengthExpression",
                      "ConcatExpression"} -> Evaluate(node, env, s)
    [] node.type = "NumericFor" -> interpretNumericFor(node, env, s)
    [] node.type = "GenericFor" -> interpretGenericFor(node, env, s)
    [] node.type = "While" -> interpretWhile(node, env, s)
    [] node.type = "Repeat" -> interpretRepeat(node, env, s)
    [] node.type = "If" -> interpretIf(node, env, s)
    [] OTHER -> Throw(s, "Unsupported AST node type")

Recurse(op, a) ==
  CASE op = "interpretNode" -> interpretNode(a[1], a[2], a[3])
    [] op = "evaluateValue" -> evaluateValue(a[1], a[2], a[3])
    [] op = "callFunction" -> callFunction(a[1], a[2], a[3])

-----------------------------------------------------------------------------
(* The Parser (src/src/Parser.ts).  The parser's fields are the fields of  *)
(* a record p.  The AST nodes it creates are objects it goes on changing   *)
(* (a body grows, an If gets its else), so they are kept in p.heap and     *)
(* refer to each other by index, 0 standing for null or undefined;         *)
(* p.parent[n] is node n's `parent` field.  p.error is the message of the  *)
(* Error thrown, "" while none is; p.ret carries what a method returns     *)
(* when that is not p.lastCreatedNode.                                     *)

\* What `tokens[i]` gives outside the array, as the text JavaScript turns
\* it into wherever the parser hands it to a regular expression.
undefined == "<undefined>"

Digits == {"0", "1", "2", "3", "4", "5", "6", "7", "8", "9"}
Letters ==
  {"a", "b", "c", "d", "e", "f", "g", "h", "i", "j", "k", "l", "m", "n", "o",
   "p", "q", "r", "s", "t", "u", "v", "w", "x", "y", "z", "A", "B", "C", "D",
   "E", "F", "G", "H", "I", "J", "K", "L", "M", "N", "O", "P", "Q", "R", "S",
   "T", "U", "V", "W", "X", "Y", "Z"}
charAt(str, i) == SubSeq(str, i, i)
includes(array, x) == \E i \in 1..Len(array) : array[i] = x

\* tokens.ts
keywords ==
  {"and", "break", "do", "else", "elseif", "end", "false", "for", "function",
   "if", "in", "local", "nil", "not", "or", "repeat", "return", "then",
   "true", "until", "while"}
operators == {"+", "-", "*", "/", "%", "^", "=", "~", "<", ">", "#"}
delimiters == {";", ",", "{", "}", "(", ")", ".", "[", "]", ":"}

isKeyToken(token) == token \in keywords \cup operators \cup delimiters

\* `/[A-Za-z_$][A-Za-z0-9_$]*/.test(token) && !this.isKeyToken(token)`: the
\* pattern is not anchored, so it asks for one letter, `_` or `$` anywhere.
isIdentifier(token) ==
  /\ \E i \in 1..Len(token) : charAt(token, i) \in Letters \cup {"_", "$"}
  /\ ~isKeyToken(token)

isStringLiteral(token) ==
  LET opening ==
        IF Len(token) >= 1 /\ charAt(token, 1) \in {"\"", "'"} THEN charAt(token, 1)
        ELSE IF Len(token) >= 2 /\ SubSeq(token, 1, 2) = "[[" THEN "[["
        ELSE ""
      closing == IF opening = "[[" THEN "]]" ELSE opening
  IN /\ opening # ""
     /\ Len(token) >= Len(closing)
     /\ SubSeq(token, Len(token) - Len(closing) + 1, Len(token)) = closing

\* `token[0] === '[' ? token.slice(2, -2) : token.slice(1, -1)`
parseStringLiteral(token) ==
  IF charAt(token, 1) = "[" THEN SubSeq(token, 3, Len(token) - 2)
  ELSE SubSeq(token, 2, Len(token) - 1)

\* `!isNaN(Number(token))` and `Number(token)`, for the numerals of the
\* inputs: unsigned decimal integers.
isNumeral(token) ==
  /\ Len(token) > 0
  /\ \A i \in 1..Len(token) : charAt(token, i) \in Digits
RECURSIVE NumberOf(_, _, _)
NumberOf(token, i, acc) ==
  IF i > Len(token) THEN acc
  ELSE NumberOf(token, i + 1,
                10 * acc + (CHOOSE d \in 0..9 : ToString(d) = charAt(token, i)))

NoScope == [node |-> 0, field |-> ""]

\* The fields of a new Parser, before parseTokens().
Parser(tokens) ==
  [ tokens |-> tokens,
    ast |-> <<>>,
    currentTokenIndex |-> -1,
    currentToken |-> undefined,
    currentScope |-> NoScope,
    lastCreatedNode |-> 0,
    blacklistedOperators |-> <<>>,
    heap |-> <<>>,
    parent |-> <<>>,
    error |-> "",
    ret |-> <<>> ]

fail(p, message) == [p EXCEPT !.error = message]
failed(p) == p.error # ""
returning(p, value) == [p EXCEPT !.ret = value]

\* A loop of the parser that goes round without reading a token.
Diverges == "<the loop does not end>"

next(p) ==
  IF p.currentTokenIndex >= Len(p.tokens) - 1
    THEN [p EXCEPT !.currentToken = undefined]
  ELSE [p EXCEPT !.currentTokenIndex = @ + 1,
                 !.currentToken = p.tokens[p.currentTokenIndex + 2]]

peek(p) ==
  IF p.currentTokenIndex + 1 \in 0..(Len(p.tokens) - 1)
    THEN p.tokens[p.currentTokenIndex + 2]
  ELSE undefined

\* `this.peek() ?? ''`
peekOrEmpty(p) == IF peek(p) = undefined THEN "" ELSE peek(p)

back(p) ==
  IF p.currentTokenIndex <= 0 THEN p
  ELSE [p EXCEPT !.currentTokenIndex = @ - 1,
                 !.currentToken = p.tokens[p.currentTokenIndex]]

expect(p, value) ==
  IF failed(p) THEN p
  ELSE LET p1 == next(p) IN
       IF p1.currentToken # value
         THEN fail(p1, "Expected '" \o value \o "' but got '"
                         \o p1.currentToken \o "'")
       ELSE p1

expectIdentifier(p) ==
  IF failed(p) THEN p
  ELSE LET p1 == next(p) IN
       IF ~isIdentifier(p1.currentToken)
         THEN fail(p1, "Expected identifier but got '" \o p1.currentToken \o "'")
       ELSE p1

\* A new node object; its index is Len(heap) afterwards.
allocate(p, rawNode) ==
  [p EXCEPT !.heap = Append(@, rawNode), !.parent = Append(@, 0)]
newest(p) == Len(p.heap)

createNode(p, rawNode) ==
  [allocate(p, rawNode) EXCEPT !.lastCreatedNode = Len(p.heap) + 1]

createNullLiteralNode(p) == createNode(p, Literal(Nil))
createLiteralNode(p, value) == createNode(p, Literal(value))
createIdentifierNode(p, name) == createNode(p, Identifier(name))

isValueResolvable(p, node) ==
  p.heap[node].type \in
    {"Literal", "ConcatExpression", "MultipleValue", "Function", "Identifier",
     "Table", "LengthExpression", "BinaryExpression", "LogicalExpression",
     "NotExpression", "IndexProperty", "ExpressionCall"}

\* `[...].includes(/\w/.test(peekFirstChar) ? this.peek() ?? '' : peekFirstChar)`
isNextTokenOperator(p) ==
  LET first == IF Len(peekOrEmpty(p)) = 0 THEN undefined
               ELSE charAt(peek(p), 1)
      word == \E i \in 1..Len(first) :
                charAt(first, i) \in Letters \cup Digits \cup {"_"}
  IN (IF word THEN peekOrEmpty(p) ELSE first)
       \in operators \cup {"and", "or", "not", ".", ",", "[", "(", "#"}

\* `node.parent = this.currentScope?.node;
\*  this.currentScope?.body.push(node) ?? this.ast.push(node)`
pushNode(p, node) ==
  IF failed(p) THEN p
  ELSE IF p.currentScope.node = 0
    THEN [p EXCEPT !.ast = Append(@, node)]
  ELSE LET scope == p.currentScope
           p1 == [p EXCEPT !.parent[node] = scope.node] IN
       IF scope.field \notin DOMAIN p.heap[scope.node]
         THEN fail(p1, "TypeError: Cannot read properties of undefined (reading 'push')")
       ELSE IF scope.field = "else"
         THEN [p1 EXCEPT !.heap[scope.node].else.body = Append(@, node)]
       ELSE [p1 EXCEPT !.heap[scope.node].body = Append(@, node)]

\* Every call of a method of the parser that can come back to itself is
\* made through the operator with the capital letter, which enters the
\* one recursive operator Descend defined after the parser.
RECURSIVE Descend(_, _)
HandleOperator(a1) == Descend("handleOperator", <<a1>>)
CommaLoop(a1, a2) == Descend("commaLoop", <<a1, a2>>)
CalledParamsLoop(a1, a2) == Descend("calledParamsLoop", <<a1, a2>>)
ParseCalledFunctionOrMethodParams(a1) == Descend("parseCalledFunctionOrMethodParams", <<a1>>)
ParamsLoop(a1, a2) == Descend("paramsLoop", <<a1, a2>>)
ParseParamsDeclaration(a1) == Descend("parseParamsDeclaration", <<a1>>)
BlockLoop(a1, a2) == Descend("blockLoop", <<a1, a2>>)
ParseBlockBody(a1, a2, a3, a4) == Descend("parseBlockBody", <<a1, a2, a3, a4>>)
ParseFunctionDeclaration(a1, a2) == Descend("parseFunctionDeclaration", <<a1, a2>>)
ParseVariableDeclaration(a1) == Descend("parseVariableDeclaration", <<a1>>)
ParseBracketStatement(a1) == Descend("parseBracketStatement", <<a1>>)
TableLoop(a1, a2) == Descend("tableLoop", <<a1, a2>>)
ParseTable(a1) == Descend("parseTable", <<a1>>)
ElseifLoop(a1, a2) == Descend("elseifLoop", <<a1, a2>>)
ForVariablesLoop(a1, a2) == Descend("forVariablesLoop", <<a1, a2>>)
ParseNextStatement(a1) == Descend("parseNextStatement", <<a1>>)
ParseValue(a1, a2, a3) == Descend("parseValue", <<a1, a2, a3>>)

\* What comes after a step of a method: nothing when the step threw,
\* else `rest` of the parser as the step left it.
Then(q, rest(_)) == IF failed(q) THEN q ELSE rest(q)

pushBlacklisted(p, operator) ==
  [p EXCEPT !.blacklistedOperators = Append(@, operator)]
\* `this.blacklistedOperators.pop()`, n times.
popBlacklisted(p, n) ==
  [p EXCEPT !.blacklistedOperators = SubSeq(@, 1, Len(@) - n)]

\* `if (this.peek() === ',') this.next()`
skip(p, separators) == IF peek(p) \in separators THEN next(p) ELSE p

\* `this.parseValue(this.next(), blacklistedOperators)`
parseValueOfNext(p, blacklistedOperators) ==
  LET p1 == next(p) IN ParseValue(p1, p1.currentToken, blacklistedOperators)

\* `this.pushNode(this.createNode(rawNode))`
pushCreatedNode(p, rawNode) ==
  LET p1 == createNode(p, rawNode) IN pushNode(p1, p1.lastCreatedNode)

\* `const x = this.parseValue(this.next())` of handleOperator, with the
\* check of x that follows it.
operand(p, message) ==
  Then(parseValueOfNext(p, <<>>), LAMBDA q :
    IF q.lastCreatedNode = 0 \/ ~isValueResolvable(q, q.lastCreatedNode)
      THEN fail(q, message)
    ELSE q)

\* `while (this.peek() === ',')` of handleOperator's case ','.
commaLoop(p, variables) ==
  IF failed(p) THEN p
  ELSE IF peek(p) # "," THEN returning(p, variables)
  ELSE Then(parseValueOfNext(next(p), <<"=", ",">>), LAMBDA q :
         IF q.lastCreatedNode = 0 \/ ~isValueResolvable(q, q.lastCreatedNode)
           THEN fail(q, "Right operand is not a value for operator ','")
         ELSE CommaLoop(q, Append(variables, q.lastCreatedNode)))

\* `switch(operator)` of handleOperator; p has just read the operator.
handleOperatorSwitch(p) ==
  LET operator == p.currentToken
      left == p.lastCreatedNode
      isValue == left # 0 /\ isValueResolvable(p, left)
      notValue(side) == side \o " operand is not a value for operator '"
                          \o operator \o "'"
  IN
  IF operator \in {"+", "-", "*", "/", "%", "^", "<", "<=", ">", ">=", "==",
                   "~="}
    THEN IF ~isValue THEN fail(p, notValue("Left"))
         ELSE Then(operand(p, notValue("Right")), LAMBDA q :
                createNode(q, [type |-> "BinaryExpression",
                               operator |-> operator, left |-> left,
                               right |-> q.lastCreatedNode]))
  ELSE IF operator \in {"and", "or"}
    THEN IF ~isValue THEN fail(p, notValue("Left"))
         ELSE Then(operand(p, notValue("Right")), LAMBDA q :
                createNode(q, [type |-> "LogicalExpression",
                               operator |-> operator, left |-> left,
                               right |-> q.lastCreatedNode]))
  ELSE IF operator = "not"
    THEN Then(operand(p, "Operand is not a value for operator 'not'"),
              LAMBDA q : createNode(q, [type |-> "NotExpression",
                                        operand |-> q.lastCreatedNode]))
  ELSE IF operator \in {"=", "+=", "-=", "*=", "/=", "%=", "^="}
    THEN IF left = 0 THEN fail(p, "No left-hand side for assignment")
         ELSE IF p.heap[left].type
                   \notin {"Identifier", "IndexProperty", "MultipleValue"}
           THEN fail(p, "Left-hand side of assignment must be an identifier or index property")
         ELSE Then(operand(p, "Right-hand side of assignment must be a value"),
                   LAMBDA q :
                     createNode(q, [type |-> "Assignment",
                                    operator |-> operator, left |-> left,
                                    right |-> q.lastCreatedNode]))
  ELSE IF operator = ","
    THEN Then(CommaLoop(back(p), <<left>>), LAMBDA q :
           createNode(q, [type |-> "MultipleValue", values |-> q.ret]))
  ELSE IF operator = "."
    THEN Then(expectIdentifier(p), LAMBDA q :
         Then(createIdentifierNode(q, q.currentToken), LAMBDA r :
           createNode(r, [type |-> "IndexProperty", table |-> left,
                          property |-> r.lastCreatedNode])))
  ELSE IF operator = ".."
    THEN IF ~isValue THEN fail(p, notValue("Left"))
         ELSE Then(operand(p, notValue("Right")), LAMBDA q :
                createNode(q, [type |-> "ConcatExpression", left |-> left,
                               right |-> q.lastCreatedNode]))
  ELSE IF operator = "#"
    THEN Then(operand(p, "Operand is not a value for operator '#'"),
              LAMBDA q : createNode(q, [type |-> "LengthExpression",
                                        operand |-> q.lastCreatedNode]))
  ELSE IF operator = "["
    THEN Then(parseValueOfNext(p, <<>>), LAMBDA q :
         Then(expect(q, "]"), LAMBDA r :
           pushCreatedNode(r, [type |-> "IndexProperty", table |-> left,
                               property |-> q.lastCreatedNode])))
  ELSE IF operator = "("
    THEN Then(ParseCalledFunctionOrMethodParams(p), LAMBDA q :
           createNode(q, [type |-> "ExpressionCall", id |-> left,
                          params |-> q.ret]))
  ELSE fail(p, "Unhandled operator: " \o operator)

\* The loop of handleOperator; the method returns this.lastCreatedNode.
handleOperator(p) ==
  IF failed(p) THEN p
  ELSE IF isNextTokenOperator(p)
          /\ ~includes(p.blacklistedOperators, peekOrEmpty(p))
    THEN HandleOperator(handleOperatorSwitch(next(p)))
  ELSE p

\* `while (this.peek() !== ')')` of parseCalledFunctionOrMethodParams.
calledParamsLoop(p, paramValues) ==
  IF failed(p) THEN p
  ELSE IF peek(p) = ")" THEN returning(p, paramValues)
  ELSE Then(parseValueOfNext(p, <<>>), LAMBDA q :
         CalledParamsLoop(skip(q, {","}),
                          Append(paramValues, q.lastCreatedNode)))

\* Returns the parameters in p.ret.
parseCalledFunctionOrMethodParams(p) ==
  IF failed(p) THEN p
  ELSE Then(IF p.currentToken # "(" THEN next(pushBlacklisted(p, ","))
            ELSE pushBlacklisted(p, ","), LAMBDA q :
         IF q.currentToken # "("
           THEN fail(q, "Expected '(' after function name")
         ELSE Then(CalledParamsLoop(q, <<>>), LAMBDA r :
              Then(expect(r, ")"), LAMBDA t :
                returning(popBlacklisted(t, 1), r.ret))))

\* `while (this.peek() !== ')')` of parseParamsDeclaration.  At the end of
\* the input next() stays where it is and isIdentifier(undefined) holds,
\* so the loop goes on adding parameters named undefined.
paramsLoop(p, paramValues) ==
  IF failed(p) THEN p
  ELSE IF peek(p) = ")" THEN returning(p, paramValues)
  ELSE IF peek(p) = undefined THEN fail(p, Diverges)
  ELSE Then(expectIdentifier(p), LAMBDA q :
       Then(createIdentifierNode(q, q.currentToken), LAMBDA name :
       Then(IF peek(name) = "=" THEN parseValueOfNext(next(name), <<>>)
            ELSE createNullLiteralNode(name), LAMBDA defaultValue :
       Then(allocate(defaultValue,
                     [type |-> "Parameter", name |-> name.lastCreatedNode,
                      defaultValue |-> defaultValue.lastCreatedNode]),
            LAMBDA param :
              ParamsLoop(skip(param, {","}),
                         Append(paramValues, newest(param)))))))

\* Returns the parameters in p.ret.
parseParamsDeclaration(p) ==
  IF failed(p) THEN p
  ELSE Then(IF p.currentToken # "(" THEN expect(pushBlacklisted(p, ","), "(")
            ELSE pushBlacklisted(p, ","), LAMBDA q :
       Then(ParamsLoop(q, <<>>), LAMBDA r :
       Then(expect(r, ")"), LAMBDA t :
         returning(popBlacklisted(t, 1), r.ret))))

\* `if(!node.parent) this.currentScope = undefined`
leaveScope(p, node) ==
  IF p.parent[node] = 0 THEN [p EXCEPT !.currentScope = NoScope] ELSE p

\* The do-while of parseBlockBody, after one parseNextStatement.
blockLoop(p, terminators) ==
  IF failed(p) THEN p
  ELSE IF peekOrEmpty(p) \notin terminators
          /\ p.currentTokenIndex < Len(p.tokens) - 1
    THEN BlockLoop(ParseNextStatement(p), terminators)
  ELSE p

\* `scopeBody` is the array node[field], or node.else when field is "else".
parseBlockBody(p, node, field, terminators) ==
  IF failed(p) THEN p
  ELSE IF peekOrEmpty(p) \in terminators
    THEN next(leaveScope([p EXCEPT !.currentScope =
                                     [node |-> node, field |-> field]], node))
  ELSE Then(BlockLoop(ParseNextStatement(
                        [p EXCEPT !.currentScope =
                                    [node |-> node, field |-> field]]),
                      terminators),
            LAMBDA q : leaveScope(q, node))

\* `this.createNode({...basefunctionNode, ...})` of parseFunctionDeclaration;
\* p has read the token after `function`.
createFunctionNode(p) ==
  IF isIdentifier(p.currentToken)
    THEN Then(createIdentifierNode(p, p.currentToken), LAMBDA q :
           createNode(q, [type |-> "Function", params |-> <<>>,
                          body |-> <<>>, local |-> FALSE,
                          anonymous |-> FALSE, name |-> q.lastCreatedNode]))
  ELSE createNode(back(p), [type |-> "Function", params |-> <<>>,
                            body |-> <<>>, local |-> FALSE,
                            anonymous |-> TRUE])

\* Returns the function node in p.ret; `local` is what the callback
\* `(node) => node.local = true` leaves in the node.
parseFunctionDeclaration(p, local) ==
  IF failed(p) THEN p
  ELSE Then(createFunctionNode(IF p.currentToken = "function" THEN next(p)
                               ELSE p), LAMBDA functionNode :
       Then(ParseParamsDeclaration(functionNode), LAMBDA q :
       Then(ParseBlockBody([q EXCEPT
                              !.heap[functionNode.lastCreatedNode].params = q.ret,
                              !.heap[functionNode.lastCreatedNode].local = local],
                           functionNode.lastCreatedNode, "body", {"end"}),
            LAMBDA r : returning(r, <<functionNode.lastCreatedNode>>))))

\* The initializer of a declaration without `=`.
nullInitializer(p, identifier) ==
  IF p.heap[identifier].type = "MultipleValue"
    THEN Then(createNullLiteralNode(p), LAMBDA q :
           createNode(q, [type |-> "MultipleValue",
                          values |-> [i \in 1..Len(p.heap[identifier].values)
                                        |-> q.lastCreatedNode]]))
  ELSE createNullLiteralNode(p)

parseVariableDeclaration(p) ==
  IF failed(p) THEN p
  ELSE IF peek(p) = "function"
    THEN Then(ParseFunctionDeclaration(next(p), TRUE), LAMBDA q :
           pushNode(q, q.ret[1]))
  ELSE Then(expectIdentifier(p), LAMBDA q :
       Then(ParseValue(q, q.currentToken, <<"=">>), LAMBDA identifier :
       Then(IF peek(identifier) = "="
              THEN parseValueOfNext(next(identifier), <<>>)
            ELSE nullInitializer(identifier, identifier.lastCreatedNode),
            LAMBDA initializer :
              pushCreatedNode(initializer,
                              [type |-> "VariableDeclaration",
                               identifier |-> identifier.lastCreatedNode,
                               value |-> initializer.lastCreatedNode]))))

\* Returns the call node or the bracketed value in p.ret.
parseBracketStatement(p) ==
  IF failed(p) THEN p
  ELSE IF p.lastCreatedNode # 0 /\ p.heap[p.lastCreatedNode].type = "Identifier"
    THEN Then(ParseCalledFunctionOrMethodParams(p), LAMBDA q :
         Then(allocate(q, [type |-> "ExpressionCall",
                           id |-> p.lastCreatedNode, params |-> q.ret]),
              LAMBDA callNode : returning(callNode, <<newest(callNode)>>)))
  ELSE Then(parseValueOfNext(p, <<>>), LAMBDA q :
         IF q.lastCreatedNode = 0 THEN fail(q, "Empty bracket statement")
         ELSE Then(expect(q, ")"), LAMBDA r :
                returning(r, <<q.lastCreatedNode>>)))

\* `this.createArrayItemNode(value)`, value being the node last created.
createArrayItemNode(p) ==
  allocate(p, [type |-> "TableListItem", value |-> p.lastCreatedNode])
createDictPropertyNode(p, key, value) ==
  allocate(p, [type |-> "TableDictItem", key |-> key, value |-> value])

\* One item of parseTable's loop; p has just read the item's first token.
tableItem(p) ==
  LET token == p.currentToken IN
  IF isStringLiteral(token)
    THEN Then(createLiteralNode(p, Str(parseStringLiteral(token))),
              LAMBDA q : createArrayItemNode(q))
  ELSE IF token = "["
    THEN Then(parseValueOfNext(p, <<>>), LAMBDA key :
         Then(expect(key, "]"), LAMBDA q :
         Then(expect(q, "="), LAMBDA r :
         Then(parseValueOfNext(r, <<>>), LAMBDA value :
           createDictPropertyNode(value, key.lastCreatedNode,
                                  value.lastCreatedNode)))))
  ELSE IF isIdentifier(token)
    THEN IF peek(p) = "="
           THEN Then(parseValueOfNext(next(p), <<>>), LAMBDA value :
                Then(createIdentifierNode(value, token), LAMBDA key :
                  createDictPropertyNode(key, key.lastCreatedNode,
                                         value.lastCreatedNode)))
         ELSE Then(createIdentifierNode(p, token),
                   LAMBDA q : createArrayItemNode(q))
  ELSE Then(ParseValue(p, token, <<>>), LAMBDA q : createArrayItemNode(q))

\* `while (this.peek() !== '}' && ...)` of parseTable.
tableLoop(p, propertyNodes) ==
  IF failed(p) THEN p
  ELSE IF peek(p) # "}" /\ p.currentTokenIndex < Len(p.tokens) - 1
    THEN Then(tableItem(next(p)), LAMBDA q :
           TableLoop(skip(q, {",", ";"}), Append(propertyNodes, newest(q))))
  ELSE returning(p, propertyNodes)

parseTable(p) ==
  IF failed(p) THEN p
  ELSE Then(IF p.currentToken # "{" THEN expect(p, "{") ELSE p, LAMBDA q :
       Then(TableLoop(pushBlacklisted(q, ","), <<>>), LAMBDA r :
       Then(expect(r, "}"), LAMBDA t :
         createNode(popBlacklisted(t, 1),
                    [type |-> "Table", properties |-> r.ret]))))

\* `while(this.peek() === 'elseif')` of parseNextStatement's case 'if';
\* returns in p.ret the If node that `ifNode` names after the loop.
elseifLoop(p, ifNode) ==
  IF failed(p) THEN p
  ELSE IF peek(p) # "elseif" THEN returning(p, <<ifNode>>)
  ELSE Then(parseValueOfNext(next(p), <<>>), LAMBDA elseifCondition :
       Then(expect(elseifCondition, "then"), LAMBDA q :
       Then(createNode(q, [type |-> "If",
                           condition |-> elseifCondition.lastCreatedNode,
                           body |-> <<>>, else |-> NoElse]), LAMBDA r :
       ElseifLoop(ParseBlockBody(
                    [r EXCEPT !.heap[ifNode].else = ElseIf(r.lastCreatedNode)],
                    r.lastCreatedNode, "body", {"elseif", "else", "end"}),
                  r.lastCreatedNode))))

\* `while(this.peek() === ',')` of parseNextStatement's case 'for'.
forVariablesLoop(p, variableNames) ==
  IF peek(p) # "," THEN returning(p, variableNames)
  ELSE Then(next(next(p)), LAMBDA q :
       Then(createIdentifierNode(q, q.currentToken), LAMBDA r :
         ForVariablesLoop(r, Append(variableNames, r.lastCreatedNode))))

\* parseNextStatement's case 'if'.
ifStatement(p) ==
  Then(parseValueOfNext(p, <<>>), LAMBDA condition :
  Then(expect(condition, "then"), LAMBDA q :
  Then(pushCreatedNode(q, [type |-> "If",
                           condition |-> condition.lastCreatedNode,
                           body |-> <<>>, else |-> NoElse]), LAMBDA ifNode :
  Then(ElseifLoop(ParseBlockBody(ifNode, ifNode.lastCreatedNode, "body",
                                 {"elseif", "else", "end"}),
                  ifNode.lastCreatedNode), LAMBDA r :
    IF peek(r) = "else"
      THEN ParseBlockBody([next(r) EXCEPT !.heap[r.ret[1]].else = ElseList(<<>>)],
                          r.ret[1], "else", {"elseif", "else", "end"})
    ELSE r))))

\* The branch `if(this.peek() === '=')` of parseNextStatement's case 'for'.
numericFor(p, variable) ==
  Then(parseValueOfNext(next(p), <<>>), LAMBDA start :
  Then(expect(start, ","), LAMBDA q :
  Then(parseValueOfNext(q, <<>>), LAMBDA end :
  Then(IF peek(end) = "," THEN parseValueOfNext(next(end), <<>>) ELSE end,
       LAMBDA step :
  Then(expect(step, "do"), LAMBDA r :
    pushCreatedNode(r, [type |-> "NumericFor", variable |-> variable,
                        start |-> start.lastCreatedNode,
                        end |-> end.lastCreatedNode,
                        step |-> IF peek(end) = ","
                                   THEN Step(step.lastCreatedNode)
                                 ELSE NoStep,
                        body |-> <<>>]))))))

\* The branch `else if(this.peek() === ',')` of the same case.
genericFor(p, variable) ==
  Then(ForVariablesLoop(p, <<variable>>), LAMBDA variableNames :
  Then(expect(variableNames, "in"), LAMBDA q :
  Then(parseValueOfNext(q, <<>>), LAMBDA iterator :
    expect(pushCreatedNode(iterator,
                           [type |-> "GenericFor",
                            iterator |-> iterator.lastCreatedNode,
                            variables |-> variableNames.ret,
                            body |-> <<>>]), "do"))))

\* parseNextStatement's case 'for'.
forStatement(p) ==
  Then(expectIdentifier(p), LAMBDA q :
  Then(createIdentifierNode(q, q.currentToken), LAMBDA variable :
  Then(IF peek(variable) = "="
         THEN numericFor(pushBlacklisted(variable, ","),
                         variable.lastCreatedNode)
       ELSE IF peek(variable) = ","
         THEN genericFor(pushBlacklisted(variable, ","),
                         variable.lastCreatedNode)
       ELSE pushBlacklisted(variable, ","), LAMBDA forNode :
    ParseBlockBody(popBlacklisted(forNode, 1), forNode.lastCreatedNode,
                   "body", {"end"}))))

\* parseNextStatement's case 'while'.
whileStatement(p) ==
  Then(parseValueOfNext(p, <<>>), LAMBDA condition :
  Then(expect(condition, "do"), LAMBDA q :
  Then(pushCreatedNode(q, [type |-> "While",
                           condition |-> condition.lastCreatedNode,
                           body |-> <<>>]), LAMBDA whileNode :
    ParseBlockBody(whileNode, whileNode.lastCreatedNode, "body", {"end"}))))

\* parseNextStatement's case 'repeat'.
repeatStatement(p) ==
  Then(createNullLiteralNode(p), LAMBDA q :
  Then(pushCreatedNode(q, [type |-> "Repeat",
                           condition |-> q.lastCreatedNode,
                           body |-> <<>>]), LAMBDA repeatNode :
  Then(ParseBlockBody(repeatNode, repeatNode.lastCreatedNode, "body",
                      {"until"}), LAMBDA r :
  Then(expect(r, "until"), LAMBDA t :
  Then(parseValueOfNext(t, <<>>), LAMBDA condition :
    [condition EXCEPT !.heap[repeatNode.lastCreatedNode].condition =
                        condition.lastCreatedNode])))))

\* parseNextStatement's case 'return'.
returnStatement(p) ==
  Then(IF peek(p) = "end" THEN createNullLiteralNode(p)
       ELSE parseValueOfNext(p, <<>>), LAMBDA value :
  Then(allocate(value, [type |-> "Return", value |-> value.lastCreatedNode]),
       LAMBDA returnNode : pushNode(returnNode, newest(returnNode))))

\* `switch (token)` of parseNextStatement; p has just read the token.
parseNextStatementSwitch(p) ==
  LET token == p.currentToken IN
  IF token = "local" THEN ParseVariableDeclaration(p)
  ELSE IF token = "if" THEN ifStatement(p)
  ELSE IF token = "for" THEN forStatement(p)
  ELSE IF token = "while" THEN whileStatement(p)
  ELSE IF token = "repeat" THEN repeatStatement(p)
  ELSE IF token = "break" THEN pushCreatedNode(p, [type |-> "Break"])
  ELSE IF token = "return" THEN returnStatement(p)
  ELSE IF token \in {"elseif", "else", "end"} THEN p
  ELSE Then(ParseValue(p, token, <<>>), LAMBDA potentialValue :
         IF potentialValue.heap[potentialValue.lastCreatedNode].type
              \in {"Function", "ExpressionCall", "Assignment"}
           THEN pushNode(potentialValue, potentialValue.lastCreatedNode)
         ELSE potentialValue)

parseNextStatement(p) ==
  IF failed(p) THEN p ELSE parseNextStatementSwitch(next(p))

\* The chain of `if (this.isStringLiteral(token)) ... else if ...` of
\* parseValue; leaves `returnValue` in p.ret, 0 for null.
parseValuePrimary(p, token) ==
  LET created(q) == IF failed(q) THEN q
                    ELSE returning(q, <<q.lastCreatedNode>>) IN
  IF isStringLiteral(token)
    THEN created(createLiteralNode(p, Str(parseStringLiteral(token))))
  ELSE IF isNumeral(token)
    THEN created(createLiteralNode(p, Num(NumberOf(token, 1, 0))))
  ELSE IF token \in {"true", "false"}
    THEN created(createLiteralNode(p, Bool(token = "true")))
  ELSE IF token = "nil" THEN created(createNullLiteralNode(p))
  ELSE IF token = "{" THEN created(ParseTable(p))
  ELSE IF token = "function" THEN ParseFunctionDeclaration(p, FALSE)
  ELSE IF token = "(" THEN ParseBracketStatement(p)
  ELSE IF token \in {"#", "-", "not"} THEN created(HandleOperator(back(p)))
  ELSE IF isIdentifier(token) THEN created(createIdentifierNode(p, token))
  ELSE returning(p, <<0>>)

\* Returns this.lastCreatedNode, which is where its callers read the value.
parseValue(p, token, blacklistedOperators) ==
  IF failed(p) THEN p
  ELSE IF token = undefined \/ token = ""
    THEN fail(p, "Unexpected end of input while parsing value")
  ELSE
    Then(parseValuePrimary(
           [p EXCEPT !.blacklistedOperators = @ \o blacklistedOperators],
           token), LAMBDA q :
    Then(IF ~includes(q.blacklistedOperators, peekOrEmpty(q))
            /\ isNextTokenOperator(q)
           THEN Then(HandleOperator(q),
                     LAMBDA r : returning(r, <<r.lastCreatedNode>>))
         ELSE q, LAMBDA r :
      IF r.ret[1] = 0
        THEN fail(r, "Unexpected token while parsing value: " \o token)
      ELSE popBlacklisted(r, Len(blacklistedOperators))))

Descend(method, a) ==
  CASE method = "handleOperator" ->
         handleOperator(a[1])
    [] method = "commaLoop" ->
         commaLoop(a[1], a[2])
    [] method = "calledParamsLoop" ->
         calledParamsLoop(a[1], a[2])
    [] method = "parseCalledFunctionOrMethodParams" ->
         parseCalledFunctionOrMethodParams(a[1])
    [] method = "paramsLoop" ->
         paramsLoop(a[1], a[2])
    [] method = "parseParamsDeclaration" ->
         parseParamsDeclaration(a[1])
    [] method = "blockLoop" ->
         blockLoop(a[1], a[2])
    [] method = "parseBlockBody" ->
         parseBlockBody(a[1], a[2], a[3], a[4])
    [] method = "parseFunctionDeclaration" ->
         parseFunctionDeclaration(a[1], a[2])
    [] method = "parseVariableDeclaration" ->
         parseVariableDeclaration(a[1])
    [] method = "parseBracketStatement" ->
         parseBracketStatement(a[1])
    [] method = "tableLoop" ->
         tableLoop(a[1], a[2])
    [] method = "parseTable" ->
         parseTable(a[1])
    [] method = "elseifLoop" ->
         elseifLoop(a[1], a[2])
    [] method = "forVariablesLoop" ->
         forVariablesLoop(a[1], a[2])
    [] method = "parseNextStatement" ->
         parseNextStatement(a[1])
    [] method = "parseValue" ->
         parseValue(a[1], a[2], a[3])

\* An AST node as the Interpreter reads it: the object with, in place of
\* each reference, the object referred to.
RECURSIVE nodeOf(_, _)
nodesOf(p, array) == [i \in 1..Len(array) |-> nodeOf(p, array[i])]
nodeOf(p, n) ==
  IF n = 0 THEN [type |-> "null"]
  ELSE
    LET node == p.heap[n]
        type == node.type
    IN
    IF type \in {"Literal", "Identifier", "Break"} THEN node
    ELSE IF type = "MultipleValue"
      THEN [node EXCEPT !.values = nodesOf(p, @)]
    ELSE IF type \in {"BinaryExpression", "LogicalExpression", "Assignment",
                       "ConcatExpression"}
      THEN [node EXCEPT !.left = nodeOf(p, @), !.right = nodeOf(p, @)]
    ELSE IF type \in {"NotExpression", "LengthExpression"}
      THEN [node EXCEPT !.operand = nodeOf(p, @)]
    ELSE IF type = "IndexProperty"
      THEN [node EXCEPT !.table = nodeOf(p, @), !.property = nodeOf(p, @)]
    ELSE IF type = "ExpressionCall"
      THEN [node EXCEPT !.id = nodeOf(p, @), !.params = nodesOf(p, @)]
    ELSE IF type = "VariableDeclaration"
      THEN [node EXCEPT !.identifier = nodeOf(p, @), !.value = nodeOf(p, @)]
    ELSE IF type = "Parameter"
      THEN [node EXCEPT !.name = nodeOf(p, @), !.defaultValue = nodeOf(p, @)]
    ELSE IF type = "Function"
      THEN IF node.anonymous
             THEN [node EXCEPT !.params = nodesOf(p, @), !.body = nodesOf(p, @)]
           ELSE [node EXCEPT !.params = nodesOf(p, @), !.body = nodesOf(p, @),
                             !.name = nodeOf(p, @)]
    ELSE IF type = "Table"
      THEN [node EXCEPT !.properties = nodesOf(p, @)]
    ELSE IF type = "TableListItem"
      THEN [node EXCEPT !.value = nodeOf(p, @)]
    ELSE IF type = "TableDictItem"
      THEN [node EXCEPT !.key = nodeOf(p, @), !.value = nodeOf(p, @)]
    ELSE IF type = "Return"
      THEN [node EXCEPT !.value = nodeOf(p, @)]
    ELSE IF type = "If"
      THEN [node EXCEPT
              !.condition = nodeOf(p, @), !.body = nodesOf(p, @),
              !.else = IF @.else = "If" THEN ElseIf(nodeOf(p, @.node))
                       ELSE IF @.else = "list" THEN ElseList(nodesOf(p, @.body))
                       ELSE NoElse]
    ELSE IF type = "NumericFor"
      THEN [node EXCEPT
              !.variable = nodeOf(p, @), !.start = nodeOf(p, @),
              !.end = nodeOf(p, @), !.body = nodesOf(p, @),
              !.step = IF @.step = "value" THEN Step(nodeOf(p, @.node))
                       ELSE NoStep]
    ELSE IF type = "GenericFor"
      THEN [node EXCEPT !.iterator = nodeOf(p, @), !.variables = nodesOf(p, @),
                        !.body = nodesOf(p, @)]
    ELSE IF type \in {"While", "Repeat"}
      THEN [node EXCEPT !.condition = nodeOf(p, @), !.body = nodesOf(p, @)]
    ELSE node

-----------------------------------------------------------------------------
(* Input programs.  A scenario is [kind, arg]: kind names a family of      *)
(* programs, arg is the sequence of small numbers that picks one.          *)

Id(name) == Identifier(name)
NumLit(n) == Literal(Num(n))
StrLit(str) == Literal(Str(str))
Call0(name) == ExpressionCall(Id(name), <<>>)
CallPrint(args) == ExpressionCall(Id("print"), args)
Local(name, value) == VariableDeclaration(Id(name), value)
Set(name, value) == Assignment(Id(name), value)

\* function Closure() local count = 0
\*   return function() count = count + 1 return count end end
ClosureFactory ==
  NamedFunction("Closure", <<>>,
    << Local("count", NumLit(0)),
       ReturnNode(AnonymousFunction(<<>>,
         << Set("count", BinaryExpression("+", Id("count"), NumLit(1))),
            ReturnNode(Id("count")) >>)) >>,
    FALSE)

\* local c1 = Closure()  local c2 = Closure(), then for every j of calls
\* `r<j> = c<j>()`.
ResultName(j) == IF j = 1 THEN "r1" ELSE "r2"
ClosureName(j) == IF j = 1 THEN "c1" ELSE "c2"
ClosureProgram(calls) ==
  << ClosureFactory, Local("c1", Call0("Closure")), Local("c2", Call0("Closure")) >>
    \o [i \in 1..Len(calls) |-> Set(ResultName(calls[i]), Call0(ClosureName(calls[i])))]

RECURSIVE SeqsUpTo(_, _)
SeqsUpTo(S, n) ==
  IF n = 0 THEN {<<>>}
  ELSE LET shorter == SeqsUpTo(S, n - 1) IN
       shorter \cup {Append(q, x) : q \in {p \in shorter : Len(p) = n - 1}, x \in S}

ClosureScenarios == {[kind |-> "closure", arg |-> c] : c \in SeqsUpTo({1, 2}, MaxCalls)}

\* A free identifier x of a function g, defined in one scope and called from
\* another that has an x of its own.  local x = "global", then the
\* definition of g (defsite) and its call (callsite), which sets r.
LexicalDefinition(defsite) ==
  CASE defsite = 1 ->  \* function g() return x end
         << NamedFunction("g", <<>>, <<ReturnNode(Id("x"))>>, FALSE) >>
    [] defsite = 2 ->  \* function mk() local x = "def" return function() return x end end  g = mk()
         << NamedFunction("mk", <<>>,
              << Local("x", StrLit("def")),
                 ReturnNode(AnonymousFunction(<<>>, <<ReturnNode(Id("x"))>>)) >>,
              FALSE),
            Set("g", Call0("mk")) >>
    [] defsite = 3 ->  \* for i = 1, 1 do local x = "def"  g = function() return x end end
         << NumericFor("i", NumLit(1), NumLit(1), NoStep,
              << Local("x", StrLit("def")),
                 Set("g", AnonymousFunction(<<>>, <<ReturnNode(Id("x"))>>)) >>) >>

LexicalCall(callsite) ==
  CASE callsite = 1 ->  \* function caller() local x = "caller" return g() end  r = caller()
         << NamedFunction("caller", <<>>,
              << Local("x", StrLit("caller")), ReturnNode(Call0("g")) >>, FALSE),
            Set("r", Call0("caller")) >>
    [] callsite = 2 ->  \* for i = 1, 1 do local x = "caller"  r = g() end
         << NumericFor("i", NumLit(1), NumLit(1), NoStep,
              << Local("x", StrLit("caller")), Set("r", Call0("g")) >>) >>
    [] callsite = 3 ->  \* function caller(x) return g() end  r = caller("caller")
         << NamedFunction("caller", <<Parameter("x", Literal(Nil))>>,
              << ReturnNode(Call0("g")) >>, FALSE),
            Set("r", ExpressionCall(Id("caller"), <<StrLit("caller")>>)) >>

LexicalProgram(defsite, callsite) ==
  << Local("x", StrLit("global")) >> \o LexicalDefinition(defsite)
    \o LexicalCall(callsite)

LexicalScenarios ==
  {[kind |-> "lexical", arg |-> <<d, c>>] : d \in 1..3, c \in 1..3}

\* `x = 9` in a loop body in a function body (site 1) or at top level
\* (site 2), with `local x` declared or not at top level (a), in the
\* function body (b) and in the loop body (c).
Optional(bit, stmt) == IF bit = 1 THEN <<stmt>> ELSE <<>>
AssignProgram(a, b, c, site) ==
  IF site = 1
    THEN Optional(a, Local("x", NumLit(1)))
           \o << NamedFunction("f", <<>>,
                   Optional(b, Local("x", NumLit(2)))
                     \o << NumericFor("i", NumLit(1), NumLit(1), NoStep,
                             Optional(c, Local("x", NumLit(3)))
                               \o << Set("x", NumLit(9)) >>) >>,
                   FALSE),
                 Call0("f") >>
  ELSE Optional(a, Local("x", NumLit(1))) \o << Set("x", NumLit(9)) >>

AssignScenarios ==
  {[kind |-> "assign", arg |-> <<a, b, c, 1>>] : a \in 0..1, b \in 0..1, c \in 0..1}
    \cup {[kind |-> "assign", arg |-> <<a, 0, 0, 2>>] : a \in 0..1}

\* A declaration of x in a nested scope, with x (and y) already bound in the
\* enclosing scopes.  form 1: local x = 7; 2: local x, y = 7, 8;
\* 3: local function x() end.
Declaration(form) ==
  CASE form = 1 -> Local("x", NumLit(7))
    [] form = 2 -> VariableDeclaration(MultipleValueNode(<<Id("x"), Id("y")>>),
                                       MultipleValueNode(<<NumLit(7), NumLit(8)>>))
    [] form = 3 -> NamedFunction("x", <<>>, <<>>, TRUE)

DeclareProgram(form, depth) ==
  << Local("x", NumLit(1)), Local("y", NumLit(2)) >> \o
  CASE depth = 1 ->  \* function f() DECL end  f()
         << NamedFunction("f", <<>>, <<Declaration(form)>>, FALSE), Call0("f") >>
    [] depth = 2 ->  \* for i = 1, 1 do DECL end
         << NumericFor("i", NumLit(1), NumLit(1), NoStep, <<Declaration(form)>>) >>
    [] depth = 3 ->  \* function f() local x = 5  for i = 1, 1 do DECL end end  f()
         << NamedFunction("f", <<>>,
              << Local("x", NumLit(5)),
                 NumericFor("i", NumLit(1), NumLit(1), NoStep, <<Declaration(form)>>) >>,
              FALSE),
            Call0("f") >>

DeclareScenarios ==
  {[kind |-> "declare", arg |-> <<f, d>>] : f \in 1..3, d \in 1..3}

\* local function f() return 1, 2 end  local t = {}, then a store of f().
StoredProgram(form) ==
  << NamedFunction("f", <<>>,
       <<ReturnNode(MultipleValueNode(<<NumLit(1), NumLit(2)>>))>>, TRUE),
     Local("t", TableNode(<<>>)) >> \o
  CASE form = 1 -> << Local("x", Call0("f")) >>                   \* local x = f()
    [] form = 2 -> << Set("x", Call0("f")) >>                     \* x = f()
    [] form = 3 ->                                                \* t[1] = f()
         << Assignment(IndexProperty(Id("t"), NumLit(1)), Call0("f")) >>
    [] form = 4 ->                                                \* t = { f() }
         << Set("t", TableNode(<<TableListItem(Call0("f"))>>)) >>
    [] form = 5 ->                                                \* t = { k = f() }
         << Set("t", TableNode(<<TableDictItem(Id("k"), Call0("f"))>>)) >>

StoredScenarios == {[kind |-> "stored", arg |-> <<f>>] : f \in 1..5}

\* local function f() return v1, v2 end, then a multi-value store.
Ids(names) == [i \in 1..Len(names) |-> Id(names[i])]
FlattenProgram(form, v1, v2) ==
  IF form = 4
    THEN  \* the fixture: local mv1, ..., mv6 = 10, 20, func2(), 60
      << NamedFunction("func", <<>>,
           <<ReturnNode(MultipleValueNode(<<NumLit(40), NumLit(50)>>))>>, TRUE),
         NamedFunction("func2", <<>>,
           <<ReturnNode(MultipleValueNode(<<NumLit(30), Call0("func")>>))>>, TRUE),
         VariableDeclaration(
           MultipleValueNode(Ids(<<"mv1", "mv2", "mv3", "mv4", "mv5", "mv6">>)),
           MultipleValueNode(<<NumLit(10), NumLit(20), Call0("func2"), NumLit(60)>>)) >>
  ELSE
    << NamedFunction("f", <<>>,
         <<ReturnNode(MultipleValueNode(<<NumLit(v1), NumLit(v2)>>))>>, TRUE) >> \o
    CASE form = 1 ->  \* a, b, c = 1, 2, f()
           << Assignment(MultipleValueNode(Ids(<<"a", "b", "c">>)),
                MultipleValueNode(<<NumLit(1), NumLit(2), Call0("f")>>)) >>
      [] form = 2 ->  \* local a, b, c, d = 1, 2, f()
           << VariableDeclaration(MultipleValueNode(Ids(<<"a", "b", "c", "d">>)),
                MultipleValueNode(<<NumLit(1), NumLit(2), Call0("f")>>)) >>
      [] form = 3 ->  \* local a, b, c, d = 1, f(), 4
           << VariableDeclaration(MultipleValueNode(Ids(<<"a", "b", "c", "d">>)),
                MultipleValueNode(<<NumLit(1), Call0("f"), NumLit(4)>>)) >>
      [] form = 5 ->  \* local a, b, c = 1, 2, f()
           << VariableDeclaration(MultipleValueNode(Ids(<<"a", "b", "c">>)),
                MultipleValueNode(<<NumLit(1), NumLit(2), Call0("f")>>)) >>

FlattenScenarios ==
  {[kind |-> "flatten", arg |-> <<f, v1, v2>>] :
     f \in {1, 2, 3, 5}, v1 \in {30, 31}, v2 \in {40, 41}}
    \cup {[kind |-> "flatten", arg |-> <<4, 30, 40>>]}

\* The four loop statements, each running var over 1..count (kind 1:
\* numeric for, 2: generic for over ipairs, 3: while, 4: repeat).  The
\* while and repeat loops count in a local declared before the loop.
LoopPrelude(kind, var) ==
  IF kind \in {3, 4} THEN << Local(var, NumLit(0)) >> ELSE <<>>
Increment(var) == Set(var, BinaryExpression("+", Id(var), NumLit(1)))
LoopNode(kind, var, count, body) ==
  CASE kind = 1 -> NumericFor(var, NumLit(1), NumLit(count), NoStep, body)
    [] kind = 2 -> GenericFor(<<Id(var), Id("v")>>,
                     ExpressionCall(Id("ipairs"),
                                    <<Id(IF count = 2 THEN "T2" ELSE "T3")>>),
                     body)
    [] kind = 3 -> WhileNode(BinaryExpression("<", Id(var), NumLit(count)),
                             <<Increment(var)>> \o body)
    [] kind = 4 -> RepeatNode(<<Increment(var)>> \o body,
                              BinaryExpression(">=", Id(var), NumLit(count)))
\* local T2 = {1, 2}  local T3 = {1, 2, 3}
LoopTables ==
  << Local("T2", TableNode(<<TableListItem(NumLit(1)), TableListItem(NumLit(2))>>)),
     Local("T3", TableNode(<<TableListItem(NumLit(1)), TableListItem(NumLit(2)),
                             TableListItem(NumLit(3))>>)) >>

\* OUTER i in 1..2 { INNER j in 1..3 { if j == 2 then EXIT end print(i, j) }
\*                   print("after", i) }
NestedLoops(outer, inner, exit) ==
  LoopPrelude(outer, "i") \o
  << LoopNode(outer, "i", 2,
       LoopPrelude(inner, "j") \o
       << LoopNode(inner, "j", 3,
            << IfNode(BinaryExpression("==", Id("j"), NumLit(2)), <<exit>>, NoElse),
               CallPrint(<<Id("i"), Id("j")>>) >>),
          CallPrint(<<StrLit("after"), Id("i")>>) >>) >>

\* mode 1: the nested loops at top level, leaving the inner one by break;
\* mode 2: function f() LOOPS print("end") return 0 end  r = f()
\*         print("next"), leaving the inner loop by `return 99`.
LoopsProgram(mode, outer, inner) ==
  IF mode = 1
    THEN LoopTables \o NestedLoops(outer, inner, BreakNode)
           \o << CallPrint(<<StrLit("next")>>) >>
  ELSE LoopTables \o
       << NamedFunction("f", <<>>,
            NestedLoops(outer, inner, ReturnNode(NumLit(99)))
              \o << CallPrint(<<StrLit("end")>>), ReturnNode(NumLit(0)) >>,
            FALSE),
          Set("r", Call0("f")),
          CallPrint(<<StrLit("next")>>) >>

LoopsScenarios ==
  {[kind |-> "loops", arg |-> <<m, o, i>>] : m \in 1..2, o \in 1..4, i \in 1..4}

\* form 1: function f() break end  LOOP i in 1..2 { f() print(i) } print("next")
\* form 2: print("a") break print("b")
\* form 3: print("a") return 5 print("b")
\* form 4: function f() break end  f()  print("b")
EscapeProgram(form, kind) ==
  CASE form = 1 ->
         LoopTables \o << NamedFunction("f", <<>>, <<BreakNode>>, FALSE) >>
           \o LoopPrelude(kind, "i")
           \o << LoopNode(kind, "i", 2, << Call0("f"), CallPrint(<<Id("i")>>) >>),
                 CallPrint(<<StrLit("next")>>) >>
    [] form = 2 ->
         << CallPrint(<<StrLit("a")>>), BreakNode, CallPrint(<<StrLit("b")>>) >>
    [] form = 3 ->
         << CallPrint(<<StrLit("a")>>), ReturnNode(NumLit(5)),
            CallPrint(<<StrLit("b")>>) >>
    [] form = 4 ->
         << NamedFunction("f", <<>>, <<BreakNode>>, FALSE), Call0("f"),
            CallPrint(<<StrLit("b")>>) >>

EscapeScenarios ==
  {[kind |-> "escape", arg |-> <<1, k>>] : k \in 1..4}
    \cup {[kind |-> "escape", arg |-> <<f, 1>>] : f \in 2..4}

\* local t = {}, then t[key] = 10 * j for the j-th key of keys, then (mode 1)
\* local it = pairs(t) and MaxInserts + 1 calls `r<n> = it()`, or (mode 2)
\* for k, v in pairs(t) do print(k, v) end.
KeyValue(code) ==
  CASE code = 1 -> Num(1)
    [] code = 2 -> Str("a")
    [] code = 3 -> Num(2)
IteratorResult(n) == "r" \o ToString(n)
PairsProgram(mode, keys) ==
  << Local("t", TableNode(<<>>)) >>
    \o [j \in 1..Len(keys) |->
          Assignment(IndexProperty(Id("t"), Literal(KeyValue(keys[j]))),
                     NumLit(10 * j))]
    \o (IF mode = 1
          THEN << Local("it", ExpressionCall(Id("pairs"), <<Id("t")>>)) >>
                 \o [n \in 1..(MaxInserts + 1) |-> Set(IteratorResult(n), Call0("it"))]
        ELSE << GenericFor(<<Id("k"), Id("v")>>,
                  ExpressionCall(Id("pairs"), <<Id("t")>>),
                  << CallPrint(<<Id("k"), Id("v")>>) >>) >>)

PairsScenarios ==
  {[kind |-> "pairs", arg |-> <<m>> \o keys] :
     m \in 1..2, keys \in SeqsUpTo({1, 2, 3}, MaxInserts)}

\* local t = {}, then t[key] = 10 * j for the j-th key of keys (integers),
\* then (mode 1) local it = ipairs(t) and MaxInserts + 1 calls `r<n> = it()`,
\* or (mode 2) for i, v in ipairs(t) do print(i, v) end.
IpairsProgram(mode, keys) ==
  << Local("t", TableNode(<<>>)) >>
    \o [j \in 1..Len(keys) |->
          Assignment(IndexProperty(Id("t"), NumLit(keys[j])), NumLit(10 * j))]
    \o (IF mode = 1
          THEN << Local("it", ExpressionCall(Id("ipairs"), <<Id("t")>>)) >>
                 \o [n \in 1..(MaxInserts + 1) |-> Set(IteratorResult(n), Call0("it"))]
        ELSE << GenericFor(<<Id("i"), Id("v")>>,
                  ExpressionCall(Id("ipairs"), <<Id("t")>>),
                  << CallPrint(<<Id("i"), Id("v")>>) >>) >>)

IpairsScenarios ==
  {[kind |-> "ipairs", arg |-> <<m>> \o keys] :
     m \in 1..2, keys \in SeqsUpTo({1, 2, 3}, MaxInserts)}

\* local t = {10, 20}, two iterators it1, it2 made by two calls of pairs
\* (builtin 1) or ipairs (builtin 2) on t, then `r<j> = it<calls[j]>()` for
\* the j-th element of calls.
IteratorName(c) == "it" \o ToString(c)
CursorsProgram(builtin, calls) ==
  LET iterators == ExpressionCall(Id(IF builtin = 1 THEN "pairs" ELSE "ipairs"),
                                  <<Id("t")>>) IN
  << Local("t", TableNode(<<TableListItem(NumLit(10)), TableListItem(NumLit(20))>>)),
     Local(IteratorName(1), iterators),
     Local(IteratorName(2), iterators) >>
    \o [j \in 1..Len(calls) |->
          Set(IteratorResult(j), Call0(IteratorName(calls[j])))]

CursorsScenarios ==
  {[kind |-> "cursors", arg |-> <<b>> \o calls] :
     b \in 1..2, calls \in SeqsUpTo({1, 2}, MaxCalls)}

\* The operands of the programs below: 1 nil, 2 false, 3 true, 4 the number
\* 0, 5 the empty string, 6 the number 1, 7 the string "a", 8 a table
\* constructor, 9 a function expression.
OperandNode(code) ==
  CASE code = 1 -> Literal(Nil)
    [] code = 2 -> Literal(Bool(FALSE))
    [] code = 3 -> Literal(Bool(TRUE))
    [] code = 4 -> NumLit(0)
    [] code = 5 -> StrLit("")
    [] code = 6 -> NumLit(1)
    [] code = 7 -> StrLit("a")
    [] code = 8 -> TableNode(<<>>)
    [] code = 9 -> AnonymousFunction(<<>>, <<>>)

LogicalOperator(code) == IF code = 1 THEN "and" ELSE "or"

\* n = 0  function f() n = n + 1 return 7 end  x = L op R, where R is the
\* call f() (1), the undefined variable u (2) or the literal 2 (3).
LogicProgram(left, operator, right) ==
  << Set("n", NumLit(0)),
     NamedFunction("f", <<>>, << Increment("n"), ReturnNode(NumLit(7)) >>, FALSE),
     Set("x", LogicalExpression(LogicalOperator(operator), OperandNode(left),
                                CASE right = 1 -> Call0("f")
                                  [] right = 2 -> Id("u")
                                  [] right = 3 -> NumLit(2))) >>

LogicScenarios ==
  {[kind |-> "logic", arg |-> <<l, o, r>>] :
     l \in {1, 2, 3, 6, 7}, o \in 1..2, r \in 1..3}

\* A value tested for truth in one of six places:
\*   1  x = not V          2  x = V and 1         3  x = V or 1
\*   4  if V then x = "then" else x = "else" end
\*   5  x = "skipped"  while V do x = "body" break end
\*   6  n = 0  repeat n = n + 1 if n >= 2 then break end until V
TruthProgram(value, place) ==
  LET V == OperandNode(value) IN
  CASE place = 1 -> << Set("x", NotExpression(V)) >>
    [] place = 2 -> << Set("x", LogicalExpression("and", V, NumLit(1))) >>
    [] place = 3 -> << Set("x", LogicalExpression("or", V, NumLit(1))) >>
    [] place = 4 -> << IfNode(V, << Set("x", StrLit("then")) >>,
                              ElseList(<< Set("x", StrLit("else")) >>)) >>
    [] place = 5 -> << Set("x", StrLit("skipped")),
                       WhileNode(V, << Set("x", StrLit("body")), BreakNode >>) >>
    [] place = 6 -> << Set("n", NumLit(0)),
                       RepeatNode(<< Increment("n"),
                                     IfNode(BinaryExpression(">=", Id("n"), NumLit(2)),
                                            << BreakNode >>, NoElse) >>,
                                  V) >>

TruthScenarios ==
  {[kind |-> "truth", arg |-> <<v, p>>] : v \in 1..9, p \in 1..6}

ReadName(c) == "x" \o ToString(c)

\* Three key expressions of one sort.  Sort 1: the calls ka(), kb(), which
\* return the tables held by a and b, and a new table {}; sort 2: the same
\* with functions; sort 3: "k", "" .. "k", "k"; sort 4: 1, 0 + 1, 1.
KeyNode(sort, code) ==
  CASE sort \in {1, 2} /\ code = 1 -> Call0("ka")
    [] sort \in {1, 2} /\ code = 2 -> Call0("kb")
    [] sort = 1 /\ code = 3 -> TableNode(<<>>)
    [] sort = 2 /\ code = 3 -> AnonymousFunction(<<>>, <<>>)
    [] sort = 3 /\ code = 2 -> ConcatExpression(StrLit(""), StrLit("k"))
    [] sort = 3 -> StrLit("k")
    [] sort = 4 /\ code = 2 -> BinaryExpression("+", NumLit(0), NumLit(1))
    [] sort = 4 -> NumLit(1)

\* local a = {}  local b = {}  (or two function expressions)
\* function ka() return a end  function kb() return b end  local t = {}
\* t[K<stores[j]>] = 10 * j for each j, then x<c> = t[K<c>] for c = 1, 2, 3.
KeysProgram(sort, stores) ==
  LET fresh == IF sort = 2 THEN AnonymousFunction(<<>>, <<>>) ELSE TableNode(<<>>) IN
  << Local("a", fresh), Local("b", fresh),
     NamedFunction("ka", <<>>, << ReturnNode(Id("a")) >>, FALSE),
     NamedFunction("kb", <<>>, << ReturnNode(Id("b")) >>, FALSE),
     Local("t", TableNode(<<>>)) >>
    \o [j \in 1..Len(stores) |->
          Assignment(IndexProperty(Id("t"), KeyNode(sort, stores[j])), NumLit(10 * j))]
    \o [c \in 1..3 |->
          Set(ReadName(c), IndexProperty(Id("t"), KeyNode(sort, c)))]

KeysScenarios ==
  {[kind |-> "keys", arg |-> <<k>> \o stores] :
     k \in 1..4, stores \in SeqsUpTo({1, 2}, MaxInserts)}

\* The keys of the constructors below: 1, 2, 3 are the numbers, 0 is the
\* string "1".
LengthKey(code) == IF code = 0 THEN StrLit("1") ELSE NumLit(code)

\* x = #E, where E is (1) the constructor {[k1] = 10, [k2] = 20, ...} with
\* the keys given, (2) the constructor {10, 20, ...} with n list items,
\* (3) a string of n characters.
LengthProgram(mode, items) ==
  << Set("x", LengthExpression(
       CASE mode = 1 ->
              TableNode([j \in 1..Len(items) |->
                           TableDictItem(LengthKey(items[j]), NumLit(10 * j))])
         [] mode = 2 ->
              TableNode([j \in 1..items[1] |-> TableListItem(NumLit(10 * j))])
         [] mode = 3 ->
              StrLit(SubSeq("abcdefgh", 1, items[1])))) >>

LengthScenarios ==
  {[kind |-> "length", arg |-> <<1>> \o keys] :
     keys \in SeqsUpTo({0, 1, 2, 3}, MaxInserts)}
    \cup {[kind |-> "length", arg |-> <<m, n>>] : m \in 2..3, n \in 0..MaxInserts}

\* n = 0, a loop of two iterations whose body is
\*   n = n + 1  local c = 0  if n == 1 then f1 = F else f2 = F end
\* and then a = f1()  b = f2().  F is function() c = c + 1 return c end
\* (variable 1) or function() i = i + 10 return i end with i the loop
\* variable (variable 2).  The loop is (1) for i = 1, 2, (2) for i, v in
\* ipairs(T2), (3) while n < 2, (4) repeat ... until n >= 2.
IterationClosure(variable) ==
  LET name == IF variable = 1 THEN "c" ELSE "i" IN
  AnonymousFunction(<<>>,
    << Set(name, BinaryExpression("+", Id(name),
                                  NumLit(IF variable = 1 THEN 1 ELSE 10))),
       ReturnNode(Id(name)) >>)

IterationProgram(loop, variable) ==
  LET body == << Increment("n"),
                 Local("c", NumLit(0)),
                 IfNode(BinaryExpression("==", Id("n"), NumLit(1)),
                        << Set("f1", IterationClosure(variable)) >>,
                        ElseList(<< Set("f2", IterationClosure(variable)) >>)) >>
  IN
  << Set("n", NumLit(0)),
     Local("T2", TableNode(<<TableListItem(NumLit(1)), TableListItem(NumLit(2))>>)),
     CASE loop = 1 -> NumericFor("i", NumLit(1), NumLit(2), NoStep, body)
       [] loop = 2 -> GenericFor(<<Id("i"), Id("v")>>,
                                 ExpressionCall(Id("ipairs"), <<Id("T2")>>), body)
       [] loop = 3 -> WhileNode(BinaryExpression("<", Id("n"), NumLit(2)), body)
       [] loop = 4 -> RepeatNode(body, BinaryExpression(">=", Id("n"), NumLit(2))),
     Set("a", Call0("f1")),
     Set("b", Call0("f2")) >>

IterationScenarios ==
  {[kind |-> "iteration", arg |-> <<l, v>>] : l \in 1..4, v \in {1}}
    \cup {[kind |-> "iteration", arg |-> <<l, 2>>] : l \in 1..2}

\* log = ""
\* function c1() log = log .. "1" return V1 end   (c2, c3 alike)
\* if c1() then log = log .. "a" elseif c2() then log = log .. "b"
\* elseif c3() then log = log .. "c" [else log = log .. "e"] end
\* with Vj true when values[j] = 1.
Note(text) == Set("log", ConcatExpression(Id("log"), StrLit(text)))
ChainBodies == <<"a", "b", "c">>
ChainCondition(j, value) ==
  NamedFunction("c" \o ToString(j), <<>>,
    << Note(ToString(j)), ReturnNode(Literal(Bool(value = 1))) >>, FALSE)

IfChainProgram(values, else) ==
  LET last == IF else = 1 THEN ElseList(<< Note("e") >>) ELSE NoElse
      third == IfNode(Call0("c3"), << Note("c") >>, last)
      second == IfNode(Call0("c2"), << Note("b") >>, ElseIf(third)) IN
  << Set("log", StrLit("")) >>
    \o [j \in 1..3 |-> ChainCondition(j, values[j])]
    \o << IfNode(Call0("c1"), << Note("a") >>, ElseIf(second)) >>

IfChainScenarios ==
  {[kind |-> "ifchain", arg |-> <<v1, v2, v3, e>>] :
     v1 \in 0..1, v2 \in 0..1, v3 \in 0..1, e \in 0..1}

\* local v1 = 10  local v2 = 20, then `v1, v2 = v2, v1` executed (1) at top
\* level, (2) in the body of a function f that is called once, (3) in the
\* body of a while loop that runs once; (4) `g1, g2 = 1, 2` in the body of
\* f with g1, g2 declared nowhere.
SwapStatement ==
  Assignment(MultipleValueNode(<<Id("v1"), Id("v2")>>),
             MultipleValueNode(<<Id("v2"), Id("v1")>>))

SwapProgram(where) ==
  << Local("v1", NumLit(10)), Local("v2", NumLit(20)) >>
    \o CASE where = 1 -> << SwapStatement >>
         [] where = 2 -> << NamedFunction("f", <<>>, << SwapStatement >>, FALSE),
                            Call0("f") >>
         [] where = 3 -> << Set("n", NumLit(0)),
                            WhileNode(BinaryExpression("<", Id("n"), NumLit(1)),
                                      << Increment("n"), SwapStatement >>) >>
         [] where = 4 -> << NamedFunction("f", <<>>,
                              << Assignment(MultipleValueNode(<<Id("g1"), Id("g2")>>),
                                            MultipleValueNode(<<NumLit(1), NumLit(2)>>)) >>,
                              FALSE),
                            Call0("f") >>

SwapScenarios == {[kind |-> "swap", arg |-> <<w>>] : w \in 1..4}

\* An iterator that yields one value a round:
\*   n = 0
\*   function step() n = n + 1 if n > 2 then return nil end return n * 10 end
\*   function iter() return step end
\*   for a, b in iter() do ra = a rb = b end
SingleValueProgram ==
  << Set("n", NumLit(0)),
     NamedFunction("step", <<>>,
       << Increment("n"),
          IfNode(BinaryExpression(">", Id("n"), NumLit(2)),
                 << ReturnNode(Literal(Nil)) >>, NoElse),
          ReturnNode(BinaryExpression("*", Id("n"), NumLit(10))) >>, FALSE),
     NamedFunction("iter", <<>>, << ReturnNode(Id("step")) >>, FALSE),
     GenericFor(<<Id("a"), Id("b")>>, Call0("iter"),
                << Set("ra", Id("a")), Set("rb", Id("b")) >>) >>

SingleValueScenarios == {[kind |-> "single", arg |-> <<1>>]}

\* local calls = 0  local t = {}
\* function tick() calls = calls + 1 return calls end
\* function pair() calls = calls + 1 return calls, 5 end
\* followed by one assignment whose right-hand side calls tick or pair:
\* (1) x = tick(), (2) t[1] = tick(), (3) a, b = tick(), 5, (4) a, b = pair().
OnceProgram(target) ==
  << Local("calls", NumLit(0)), Local("t", TableNode(<<>>)),
     NamedFunction("tick", <<>>,
                   << Increment("calls"), ReturnNode(Id("calls")) >>, FALSE),
     NamedFunction("pair", <<>>,
                   << Increment("calls"),
                      ReturnNode(MultipleValueNode(<<Id("calls"), NumLit(5)>>)) >>,
                   FALSE) >>
    \o CASE target = 1 -> << Set("x", Call0("tick")) >>
         [] target = 2 -> << Assignment(IndexProperty(Id("t"), NumLit(1)),
                                        Call0("tick")) >>
         [] target = 3 -> << Assignment(MultipleValueNode(<<Id("a"), Id("b")>>),
                                        MultipleValueNode(<<Call0("tick"), NumLit(5)>>)) >>
         [] target = 4 -> << Assignment(MultipleValueNode(<<Id("a"), Id("b")>>),
                                        Call0("pair")) >>

OnceScenarios == {[kind |-> "once", arg |-> <<target>>] : target \in 1..4}

\* x = L op R for operands of every runtime kind and the operators ==, ~=,
\* + and <.
CompareOperators == <<"==", "~=", "+", "<">>

CompareProgram(left, operator, right) ==
  << Set("x", BinaryExpression(CompareOperators[operator],
                               OperandNode(left), OperandNode(right))) >>

CompareScenarios ==
  {[kind |-> "compare", arg |-> <<l, o, r>>] :
     l \in {1, 3, 6, 7, 8, 9}, o \in 1..Len(CompareOperators), r \in {1, 6, 7}}

\* The tokens of `for i = S, E do print(i) end` and, when step is not 0, of
\* `for i = S, E, step do print(i) end`; the lexer makes `-` and the
\* digits after it two tokens.
ForTokens(start, end, step) ==
  <<"for", "i", "=", ToString(start), ",", ToString(end)>>
    \o (IF step = 0 THEN <<>>
        ELSE IF step < 0 THEN <<",", "-", ToString(-step)>>
        ELSE <<",", ToString(step)>>)
    \o <<"do", "print", "(", "i", ")", "end">>

ForScenarios ==
  {[kind |-> "for", arg |-> <<start, end, step>>] :
     start \in {1, 3, 10}, end \in {1, 3, 10}, step \in {-2, -1, 0, 1, 2}}

\* The tokens of `x = 8 op1 4 op2 2`.
ChainOperators == <<"+", "-", "*", "..", "and", "or">>
ChainTokens(op1, op2) ==
  <<"x", "=", "8", ChainOperators[op1], "4", ChainOperators[op2], "2">>

ChainScenarios ==
  {[kind |-> "chain", arg |-> <<op1, op2>>] :
     op1 \in 1..Len(ChainOperators), op2 \in 1..Len(ChainOperators)}

\* Well-formed programs, as the lexer hands them to the parser.
WellFormedPrograms ==
  << <<"local", "x", "=", "1">>,
     <<"x", "=", "1", "+", "2">>,
     <<"print", "(", "\"a\"", ")">>,
     <<"if", "x", "then", "y", "=", "1", "else", "y", "=", "2", "end">>,
     <<"while", "x", "do", "x", "=", "false", "end">>,
     <<"for", "i", "=", "1", ",", "3", "do", "print", "(", "i", ")", "end">>,
     <<"for", "k", ",", "v", "in", "pairs", "(", "t", ")", "do",
       "print", "(", "k", ")", "end">>,
     <<"repeat", "x", "=", "1", "until", "x">>,
     <<"local", "t", "=", "{", "1", ",", "2", ",", "k", "=", "3", "}">>,
     <<"x", "=", "-", "1">>,
     <<"local", "y", "=", "2", "local", "x", "=", "-", "y">>,
     <<"repeat", "until", "x">> >>

WellFormedScenarios ==
  {[kind |-> "wellformed", arg |-> <<i>>] : i \in 1..Len(WellFormedPrograms)}

\* Malformed programs: an unexpected token, or the input ending inside an
\* expression, an argument list, a table constructor, a parameter list or a
\* block.
MalformedPrograms ==
  << <<"x", "=">>,
     <<"local", "=", "1">>,
     <<"print", "(", "1">>,
     <<"local", "t", "=", "{", "1", ",">>,
     <<"x", "=", "1", ")">>,
     <<"if", "x", "y", "=", "1", "end">>,
     <<"function", "f", "(">>,
     <<"function", "f", "(", "a", ",">>,
     <<"if", "x", "then", "y", "=", "1">>,
     <<"while", "x", "do", "y", "=", "1">> >>

MalformedScenarios ==
  {[kind |-> "malformed", arg |-> <<i>>] : i \in 1..Len(MalformedPrograms)}

\* local k = K, a table t with the value 1 stored under a bracketed key,
\* a read x = t[...] and the read y = t.k:
\*   1  local t = { [k] = 1 }      x = t[K]
\*   2  local t = {}  t[k] = 1     x = t[K]
\*   3  local t = {}  t[K] = 1     x = t[k]
\*   4  local t = { [K + 0] = 1 }  x = t[K + 0]
BracketTokens(mode, K) ==
  <<"local", "k", "=", ToString(K), "local", "t", "=", "{">>
    \o (CASE mode = 1 -> <<"[", "k", "]", "=", "1", "}">>
          [] mode = 2 -> <<"}", "t", "[", "k", "]", "=", "1">>
          [] mode = 3 -> <<"}", "t", "[", ToString(K), "]", "=", "1">>
          [] mode = 4 -> <<"[", ToString(K), "+", "0", "]", "=", "1", "}">>)
    \o <<"x", "=", "t", "[">>
    \o (CASE mode \in {1, 2} -> <<ToString(K)>>
          [] mode = 3 -> <<"k">>
          [] mode = 4 -> <<ToString(K), "+", "0">>)
    \o <<"]", "y", "=", "t", ".", "k">>

BracketScenarios ==
  {[kind |-> "bracket", arg |-> <<m, K>>] : m \in 1..4, K \in {5, 7}}

\* Constructs whose body is empty: the terminator follows the opener.
EmptyBodyPrograms ==
  << <<"while", "x", "do", "end", "y", "=", "1">>,
     <<"for", "i", "=", "1", ",", "2", "do", "end", "y", "=", "1">>,
     <<"if", "x", "then", "end", "y", "=", "1">>,
     <<"if", "x", "then", "y", "=", "2", "else", "end", "z", "=", "3">>,
     <<"function", "f", "(", ")", "end", "y", "=", "1">>,
     <<"if", "x", "then", "else", "y", "=", "1", "end">>,
     <<"if", "x", "then", "elseif", "w", "then", "y", "=", "1", "end">>,
     <<"repeat", "until", "x">> >>

EmptyBodyScenarios ==
  {[kind |-> "emptybody", arg |-> <<i>>] : i \in 1..Len(EmptyBodyPrograms)}

\* The tokens of
\*   if V1 then r = "a" elseif V2 then r = "b" elseif V3 then r = "c"
\*   [else r = "e"] end
\* with Vj the literal true or false.
IfTokens(values, else) ==
  LET V(j) == IF values[j] = 1 THEN "true" ELSE "false"
      body(j) == <<"then", "r", "=", "\"" \o ChainBodies[j] \o "\"">> IN
  <<"if", V(1)>> \o body(1) \o <<"elseif", V(2)>> \o body(2)
    \o <<"elseif", V(3)>> \o body(3)
    \o (IF else = 1 THEN <<"else", "r", "=", "\"e\"">> ELSE <<>>)
    \o <<"end">>

IfTokensScenarios ==
  {[kind |-> "iftokens", arg |-> <<v1, v2, v3, e>>] :
     v1 \in 0..1, v2 \in 0..1, v3 \in 0..1, e \in 0..1}

\* Local declarations of several names with fewer values than names.
ShortDeclarations ==
  << <<"local", "a", ",", "b", ",", "c", "=", "1", ",", "2">>,
     <<"local", "a", ",", "b">>,
     <<"local", "a", ",", "b", "=", "1">>,
     <<"local", "a", ",", "b", "=", "print", "(", ")">> >>

ShortDeclarationScenarios ==
  {[kind |-> "short", arg |-> <<i>>] : i \in 1..Len(ShortDeclarations)}

\* local t = { 10 }  for k [, v [, w]] in pairs(t) do r = k end
GenericForTokens(count) ==
  <<"local", "t", "=", "{", "10", "}", "for", "k">>
    \o (IF count >= 2 THEN <<",", "v">> ELSE <<>>)
    \o (IF count >= 3 THEN <<",", "w">> ELSE <<>>)
    \o <<"in", "pairs", "(", "t", ")", "do", "r", "=", "k", "end">>

GenericForScenarios == {[kind |-> "genfor", arg |-> <<c>>] : c \in 1..3}

\* Blocks with several statements, nested blocks, and a write to t[1].
BlockPrograms ==
  << <<"while", "x", "do", "a", "(", ")", "b", "(", ")", "end", "c", "(", ")">>,
     <<"if", "x", "then", "a", "(", ")", "b", "(", ")", "else", "c", "(", ")",
       "end", "d", "(", ")">>,
     <<"while", "x", "do", "if", "y", "then", "a", "(", ")", "end",
       "b", "(", ")", "end", "c", "(", ")">>,
     <<"while", "x", "do", "while", "y", "do", "a", "(", ")", "end",
       "b", "(", ")", "end", "c", "(", ")">>,
     <<"t", "[", "1", "]", "=", "2">> >>

BlockScenarios ==
  {[kind |-> "blocks", arg |-> <<i>>] : i \in 1..Len(BlockPrograms)}

\* Functions as statements and as values; the fourth program is the
\* counter-factory fixture with the increment replaced by a store.
FunctionPrograms ==
  << <<"function", "f", "(", ")", "end">>,
     <<"function", "f", "(", ")", "print", "(", "1", ")", "end", "f", "(", ")">>,
     <<"local", "f", "=", "function", "(", ")", "return", "1", "end",
       "print", "(", "f", "(", ")", ")">>,
     <<"function", "Closure", "(", ")", "local", "count", "=", "0",
       "return", "function", "(", ")", "count", "=", "1",
       "return", "count", "end", "end",
       "local", "myClosure", "=", "Closure", "(", ")",
       "print", "(", "myClosure", "(", ")", ")">>,
     <<"return", "function", "(", ")", "return", "1", "end">> >>

FunctionScenarios ==
  {[kind |-> "function", arg |-> <<i>>] : i \in 1..Len(FunctionPrograms)}

\* The programs given as tokens, and their tokens.
TokenScenarios == ForScenarios \cup ChainScenarios \cup WellFormedScenarios \cup MalformedScenarios \cup BracketScenarios \cup EmptyBodyScenarios \cup IfTokensScenarios \cup ShortDeclarationScenarios \cup GenericForScenarios \cup BlockScenarios \cup FunctionScenarios

Tokens(sc) ==
  CASE sc.kind = "for" -> ForTokens(sc.arg[1], sc.arg[2], sc.arg[3])
    [] sc.kind = "chain" -> ChainTokens(sc.arg[1], sc.arg[2])
    [] sc.kind = "wellformed" -> WellFormedPrograms[sc.arg[1]]
    [] sc.kind = "malformed" -> MalformedPrograms[sc.arg[1]]
    [] sc.kind = "bracket" -> BracketTokens(sc.arg[1], sc.arg[2])
    [] sc.kind = "emptybody" -> EmptyBodyPrograms[sc.arg[1]]
    [] sc.kind = "iftokens" -> IfTokens(SubSeq(sc.arg, 1, 3), sc.arg[4])
    [] sc.kind = "short" -> ShortDeclarations[sc.arg[1]]
    [] sc.kind = "genfor" -> GenericForTokens(sc.arg[1])
    [] sc.kind = "blocks" -> BlockPrograms[sc.arg[1]]
    [] sc.kind = "function" -> FunctionPrograms[sc.arg[1]]

Scenarios ==
  ClosureScenarios \cup LexicalScenarios \cup AssignScenarios
    \cup DeclareScenarios \cup StoredScenarios \cup FlattenScenarios
    \cup LoopsScenarios \cup EscapeScenarios \cup PairsScenarios
    \cup IpairsScenarios \cup CursorsScenarios \cup LogicScenarios \cup TruthScenarios \cup KeysScenarios \cup LengthScenarios \cup IterationScenarios \cup IfChainScenarios \cup SwapScenarios \cup SingleValueScenarios \cup OnceScenarios \cup CompareScenarios

Program(sc) ==
  CASE sc.kind = "closure" -> ClosureProgram(sc.arg)
    [] sc.kind = "lexical" -> LexicalProgram(sc.arg[1], sc.arg[2])
    [] sc.kind = "assign" -> AssignProgram(sc.arg[1], sc.arg[2], sc.arg[3], sc.arg[4])
    [] sc.kind = "declare" -> DeclareProgram(sc.arg[1], sc.arg[2])
    [] sc.kind = "stored" -> StoredProgram(sc.arg[1])
    [] sc.kind = "flatten" -> FlattenProgram(sc.arg[1], sc.arg[2], sc.arg[3])
    [] sc.kind = "loops" -> LoopsProgram(sc.arg[1], sc.arg[2], sc.arg[3])
    [] sc.kind = "escape" -> EscapeProgram(sc.arg[1], sc.arg[2])
    [] sc.kind = "pairs" -> PairsProgram(sc.arg[1], Tail(sc.arg))
    [] sc.kind = "ipairs" -> IpairsProgram(sc.arg[1], Tail(sc.arg))
    [] sc.kind = "cursors" -> CursorsProgram(sc.arg[1], Tail(sc.arg))
    [] sc.kind = "logic" -> LogicProgram(sc.arg[1], sc.arg[2], sc.arg[3])
    [] sc.kind = "truth" -> TruthProgram(sc.arg[1], sc.arg[2])
    [] sc.kind = "keys" -> KeysProgram(sc.arg[1], Tail(sc.arg))
    [] sc.kind = "length" -> LengthProgram(sc.arg[1], Tail(sc.arg))
    [] sc.kind = "iteration" -> IterationProgram(sc.arg[1], sc.arg[2])
    [] sc.kind = "ifchain" -> IfChainProgram(SubSeq(sc.arg, 1, 3), sc.arg[4])
    [] sc.kind = "swap" -> SwapProgram(sc.arg[1])
    [] sc.kind = "single" -> SingleValueProgram
    [] sc.kind = "once" -> OnceProgram(sc.arg[1])
    [] sc.kind = "compare" -> CompareProgram(sc.arg[1], sc.arg[2], sc.arg[3])

-----------------------------------------------------------------------------
(* The constructor of Parser: parseTokens(), a loop of                     *)
(* parseNextStatement().  The constructor of Interpreter, which is given   *)
(* parser.ast: installBuiltins(), then                                     *)
(* `for (const node of nodes) this.interpretNode(node, this.globalEnv)`.   *)

NoSignal == [sig |-> "none", val |-> Nil]

Init ==
  /\ scenario \in Scenarios \cup TokenScenarios
  /\ IF scenario \in TokenScenarios
       THEN /\ parser = Parser(Tokens(scenario))
            /\ nodes = <<>>
            /\ phase = "parsing"
     ELSE /\ parser = Parser(<<>>)
          /\ nodes = Program(scenario)
          /\ phase = "new"
  /\ ip = 0
  /\ st = EmptyHeap
  /\ thrown = NoSignal

\* One round of `while (this.currentTokenIndex < this.tokens.length - 1)`
\* of parseTokens; after the last one the AST goes to the Interpreter.  An
\* Error thrown leaves the constructor of Parser.
ParseTokens ==
  /\ phase = "parsing"
  /\ parser.currentTokenIndex < Len(parser.tokens) - 1
  /\ parser' = ParseNextStatement(parser)
  /\ IF failed(parser')
       THEN /\ phase' = "thrown"
            /\ thrown' = [sig |-> "error", val |-> Str(parser'.error)]
            /\ nodes' = nodes
     ELSE IF parser'.currentTokenIndex < Len(parser'.tokens) - 1
       THEN UNCHANGED <<phase, thrown, nodes>>
     ELSE /\ phase' = "new"
          /\ nodes' = nodesOf(parser', parser'.ast)
          /\ thrown' = thrown
  /\ UNCHANGED <<scenario, ip, st>>

InstallBuiltins ==
  /\ phase = "new"
  /\ st' = installBuiltins(st)
  /\ phase' = IF Len(nodes) = 0 THEN "done" ELSE "running"
  /\ UNCHANGED <<scenario, parser, nodes, ip, thrown>>

\* The constructor's loop is at a node of the given type.
AtTopLevel(type) ==
  /\ phase = "running"
  /\ ip < Len(nodes)
  /\ nodes[ip + 1].type = type

\* One round of the constructor's loop.  What the node throws leaves the
\* constructor.
InterpretTopLevel ==
  LET r == Interpret(nodes[ip + 1], globalEnv, st) IN
    /\ st' = r.st
    /\ IF Abrupt(r)
         THEN /\ phase' = "thrown"
              /\ thrown' = [sig |-> r.sig, val |-> r.val]
              /\ ip' = ip
       ELSE /\ phase' = IF ip + 1 = Len(nodes) THEN "done" ELSE "running"
            /\ thrown' = thrown
            /\ ip' = ip + 1
    /\ UNCHANGED <<scenario, parser, nodes>>

InterpretFunction ==
  /\ AtTopLevel("Function")
  /\ InterpretTopLevel

InterpretVariableDeclaration ==
  /\ AtTopLevel("VariableDeclaration")
  /\ InterpretTopLevel

InterpretAssignment ==
  /\ AtTopLevel("Assignment")
  /\ InterpretTopLevel

InterpretExpressionCall ==
  /\ AtTopLevel("ExpressionCall")
  /\ InterpretTopLevel

InterpretNumericFor ==
  /\ AtTopLevel("NumericFor")
  /\ InterpretTopLevel

InterpretGenericFor ==
  /\ AtTopLevel("GenericFor")
  /\ InterpretTopLevel

InterpretIf ==
  /\ AtTopLevel("If")
  /\ InterpretTopLevel

InterpretIndexProperty ==
  /\ AtTopLevel("IndexProperty")
  /\ InterpretTopLevel

InterpretWhile ==
  /\ AtTopLevel("While")
  /\ InterpretTopLevel

InterpretRepeat ==
  /\ AtTopLevel("Repeat")
  /\ InterpretTopLevel

InterpretBreak ==
  /\ AtTopLevel("Break")
  /\ InterpretTopLevel

InterpretReturn ==
  /\ AtTopLevel("Return")
  /\ InterpretTopLevel

Next ==
  \/ ParseTokens
  \/ InstallBuiltins
  \/ InterpretFunction
  \/ InterpretVariableDeclaration
  \/ InterpretAssignment
  \/ InterpretExpressionCall
  \/ InterpretNumericFor
  \/ InterpretGenericFor
  \/ InterpretIf
  \/ InterpretIndexProperty
  \/ InterpretWhile
  \/ InterpretRepeat
  \/ InterpretBreak
  \/ InterpretReturn

Spec == Init /\ [][Next]_vars

-----------------------------------------------------------------------------
(* Observations of the interpreter's state.                                *)

\* getGlobal(name): `this.globalEnv.lookup(name)`.
getGlobal(name) == lookup(st, globalEnv, name)

GlobalValues == st.envs[globalEnv].values
Bound(name) == name \in DOMAIN GlobalValues
GlobalIs(name, value) == Bound(name) /\ sameValue(GlobalValues[name], value)
BoundIn(env, name, value) ==
  /\ name \in DOMAIN st.envs[env].values
  /\ sameValue(st.envs[env].values[name], value)
Finished == phase = "done"

-----------------------------------------------------------------------------
(* C1.  Closures are independent.                                          *)

\* The number of calls of closure c<j> among the top-level statements
\* executed so far (the first three statements set the closures up).
CallsSoFar(j) ==
  Cardinality({i \in 1..(ip - 3) : scenario.arg[i] = j})

\* C1: two closures made by two calls of the counter factory count
\* separately: after any interleaving of calls, the result of the latest
\* call of each closure is the number of calls made of that closure, however
\* often the other one was called, and no call fails.
ClosuresCountSeparately ==
  scenario.kind = "closure" =>
    /\ phase # "thrown"
    /\ ip >= 3 =>
         \A j \in {1, 2} :
           IF CallsSoFar(j) = 0 THEN ~Bound(ResultName(j))
           ELSE GlobalIs(ResultName(j), Num(CallsSoFar(j)))

\* c1(), c2(), c1() have run: r1 = 2 and r2 = 1.
ClosuresInterleaved ==
  /\ scenario = [kind |-> "closure", arg |-> <<1, 2, 1>>]
  /\ Finished
  /\ GlobalIs("r1", Num(2))
  /\ GlobalIs("r2", Num(1))

-----------------------------------------------------------------------------
(* C2.  Lexical scoping.                                                   *)

\* C2: when g is called from a scope with its own local x, the activation
\* environment of the call (the last one created) has as parent the
\* environment g captured at its creation, and g's free x is the x of the
\* definition site: "global" for g defined at top level, "def" for g defined
\* next to `local x = "def"`, never "caller".
CalleeSeesDefinitionSite ==
  scenario.kind = "lexical" =>
    /\ phase # "thrown"
    /\ Finished =>
         /\ GlobalIs("r", Str(IF scenario.arg[1] = 1 THEN "global" ELSE "def"))
         /\ Bound("g") /\ GlobalValues["g"].k = "function"
         /\ st.envs[Len(st.envs)].parent = st.funcs[GlobalValues["g"].v].closure

\* g was made by mk() next to `local x = "def"` and called from caller(),
\* which has `local x = "caller"`.
CalleeCalledFromShadowingCaller ==
  /\ scenario = [kind |-> "lexical", arg |-> <<2, 1>>]
  /\ Finished
  /\ GlobalIs("r", Str("def"))
  /\ BoundIn(Len(st.envs) - 1, "x", Str("caller"))

-----------------------------------------------------------------------------
(* C3.  Assignment to a single identifier.                                 *)

\* The environment that `x = 9` must write: the innermost one that binds x
\* (3: loop body, 2: function body, 1: global), the global one if none does.
AssignNearest ==
  IF scenario.arg[4] = 2 THEN 1
  ELSE IF scenario.arg[3] = 1 THEN 3
  ELSE IF scenario.arg[2] = 1 THEN 2
  ELSE 1

-----------------------------------------------------------------------------
(* C4.  Declarations.                                                      *)

\* C4: a declaration of x (and y) in a nested scope leaves the bindings of
\* the enclosing scopes as they were: the global x = 1 and y = 2, and the
\* x = 5 of the enclosing function body.
DeclarationLeavesEnclosingBindings ==
  (scenario.kind = "declare" /\ Finished) =>
    /\ GlobalIs("x", Num(1))
    /\ GlobalIs("y", Num(2))
    /\ scenario.arg[2] = 3 => BoundIn(2, "x", Num(5))

-----------------------------------------------------------------------------
(* C5.  No stored MultipleValue.                                           *)

\* C5: no binding of any environment and no entry of any table holds a
\* MultipleValue.
NoMultipleValueStored ==
  /\ \A e \in 1..Len(st.envs) : \A name \in DOMAIN st.envs[e].values :
       ~isMultipleValue(st.envs[e].values[name])
  /\ \A t \in 1..Len(st.tables) : \A i \in 1..Len(st.tables[t]) :
       ~isMultipleValue(st.tables[t][i].value)

-----------------------------------------------------------------------------
(* C6.  Multi-value flattening.                                            *)

\* What holds of every form: with f returning v1, v2,
\* `a, b, c = 1, 2, f()` and `local a, b, c = 1, 2, f()` bind 1, 2, v1, and
\* `local a, b, c, d = 1, 2, f()` binds d = v2 as well.
FlattenLastItem ==
  LET form == scenario.arg[1]
      v1 == scenario.arg[2]
      v2 == scenario.arg[3]
  IN form \in {1, 2, 5} =>
       /\ GlobalIs("a", Num(1))
       /\ GlobalIs("b", Num(2))
       /\ GlobalIs("c", Num(v1))
       /\ IF form = 2 THEN GlobalIs("d", Num(v2)) ELSE ~Bound("d")

-----------------------------------------------------------------------------
(* C7.  break and return in nested loops.                                  *)

\* C7: in `OUTER i in 1..2 { INNER j in 1..3 { if j == 2 then EXIT end
\* print(i, j) } print("after", i) }`, for every pair of loop kinds: with
\* EXIT = break the inner loop ends at j = 2 and the outer loop goes on, in
\* both of its iterations; with EXIT = return 99 in a function body the call
\* ends at once with 99: no further iteration, not the "after" line, not
\* the "end" line after the loops.
BreakInnermostReturnWhole ==
  scenario.kind = "loops" =>
    /\ phase # "thrown"
    /\ Finished =>
         IF scenario.arg[1] = 1
           THEN st.out = <<"1\t1", "after\t1", "2\t1", "after\t2", "next">>
         ELSE /\ st.out = <<"1\t1", "next">>
              /\ GlobalIs("r", Num(99))

\* A break in a repeat loop inside a generic for has been executed.
BrokeOutOfInnerLoop ==
  /\ scenario = [kind |-> "loops", arg |-> <<1, 2, 4>>]
  /\ Finished
  /\ Len(st.out) = 5
  /\ st.out[2] = "after\t1"

-----------------------------------------------------------------------------
(* C8.  Signals stay inside their loop and their activation.               *)

\* C8: `function f() break end` called in the body of a loop over 1..2 does
\* not end the loop, which prints 1 and 2; and no statement list running at
\* top level ends by a Break or Return signal.
SignalsStayInside ==
  scenario.kind = "escape" =>
    /\ thrown.sig \notin {"break", "return"}
    /\ (Finished /\ scenario.arg[1] = 1) => st.out = <<"1", "2", "next">>

-----------------------------------------------------------------------------
(* C9.  Numeric for loops written with a step.                             *)

\* What a loop over start, start + step, ... as far as end prints.
RECURSIVE Visits(_, _, _)
Visits(i, end, step) ==
  IF (IF step > 0 THEN i <= end ELSE i >= end)
    THEN <<ToString(i)>> \o Visits(i + step, end, step)
  ELSE <<>>

\* The program `for i = start, end, step do print(i) end` has been parsed
\* and run, and the run is over.
ForLoopOver(start, end, step) ==
  /\ scenario.kind = "for"
  /\ scenario.arg = <<start, end, step>>
  /\ phase \in {"done", "thrown"}

\* C9: parsed and executed, `for i = 10, 1, -1 do print(i) end` prints 10, 9,
\* ..., 1 and ends normally, and `for i = 1, 10, 2 do print(i) end` prints
\* 1, 3, 5, 7, 9 and ends normally.
ForVisitsInOrder ==
  /\ ForLoopOver(10, 1, -1) => (Finished /\ st.out = Visits(10, 1, -1))
  /\ ForLoopOver(1, 10, 2) => (Finished /\ st.out = Visits(1, 10, 2))

-----------------------------------------------------------------------------
(* C10.  pairs.                                                            *)

PairsKeys == Tail(scenario.arg)

\* The keys in the order of their first insertion.
RECURSIVE FirstInserted(_, _)
FirstInserted(keys, i) ==
  IF i > Len(keys) THEN <<>>
  ELSE IF \E j \in 1..(i - 1) : keys[j] = keys[i] THEN FirstInserted(keys, i + 1)
  ELSE <<keys[i]>> \o FirstInserted(keys, i + 1)

\* The value last stored under a key: 10 * j for the last j with that key.
LastStored(keys, code) ==
  10 * (CHOOSE j \in 1..Len(keys) :
          /\ keys[j] = code
          /\ \A l \in (j + 1)..Len(keys) : keys[l] # code)

KeyText(code) == IF code = 1 THEN "1" ELSE IF code = 2 THEN "a" ELSE "2"

\* C10: with t filled by the insertions of the scenario and not modified
\* afterwards, the n-th call of the iterator of pairs(t) returns the n-th
\* key in first-insertion order with the value stored under it, every key
\* once, and every later call returns Nil; the generic for over pairs(t)
\* prints exactly those entries in that order and stops.
PairsYieldsInsertionOrder ==
  scenario.kind = "pairs" =>
    /\ phase # "thrown"
    /\ Finished =>
         LET order == FirstInserted(PairsKeys, 1) IN
         IF scenario.arg[1] = 1
           THEN \A n \in 1..(MaxInserts + 1) :
                  /\ Bound(IteratorResult(n))
                  /\ LET r == GlobalValues[IteratorResult(n)] IN
                     IF n <= Len(order)
                       THEN /\ isMultipleValue(r)
                            /\ Len(r.v) = 2
                            /\ sameValue(r.v[1], KeyValue(order[n]))
                            /\ sameValue(r.v[2], Num(LastStored(PairsKeys, order[n])))
                     ELSE r.k = "nil"
         ELSE st.out = [n \in 1..Len(order) |->
                          KeyText(order[n]) \o "\t"
                            \o ToString(LastStored(PairsKeys, order[n]))]

\* t["a"] = 10, t[1] = 20, t["a"] = 30, then the iterator called four
\* times: ("a", 30), (1, 20), Nil, Nil.
PairsAfterOverwrite ==
  /\ scenario = [kind |-> "pairs", arg |-> <<1, 2, 1, 2>>]
  /\ Finished
  /\ GlobalValues["r1"].k = "multipleValue"
  /\ sameValue(GlobalValues["r1"].v[1], Str("a"))
  /\ sameValue(GlobalValues["r1"].v[2], Num(30))
  /\ GlobalValues["r3"].k = "nil"

-----------------------------------------------------------------------------
(* C11.  ipairs.                                                           *)

\* The largest n such that the keys 1..n are all among keys.
Prefix(keys) ==
  CHOOSE n \in 0..Len(keys) :
    /\ \A i \in 1..n : \E j \in 1..Len(keys) : keys[j] = i
    /\ ~\E j \in 1..Len(keys) : keys[j] = n + 1

-----------------------------------------------------------------------------
(* C12.  Iterators keep their own cursor.                                  *)

\* How many of the first j calls went to the iterator of the j-th call.
OwnCalls(calls, j) == Cardinality({l \in 1..j : calls[l] = calls[j]})

\* C12: two iterators made by two calls of pairs (or of ipairs) on the table
\* {10, 20} and called in any interleaving each return what they return
\* when called alone: the m-th call of an iterator returns (m, 10 * m) for
\* m = 1, 2 and Nil for m = 3, whatever calls the other iterator got.
IteratorsKeepOwnCursor ==
  (scenario.kind = "cursors" /\ phase \in {"running", "done"}) =>
    LET calls == Tail(scenario.arg) IN
    \A j \in 1..Len(calls) :
      j <= ip - 3 =>
        /\ Bound(IteratorResult(j))
        /\ LET r == GlobalValues[IteratorResult(j)]
               m == OwnCalls(calls, j) IN
           IF m <= 2
             THEN /\ isMultipleValue(r)
                  /\ sameValue(r.v[1], Num(m))
                  /\ sameValue(r.v[2], Num(10 * m))
           ELSE r.k = "nil"

\* pairs: it1, it2, it1 called in that order; it2 started at the first
\* entry after it1 had moved on, and it1 went on to its second.
IteratorsInterleaved ==
  /\ scenario = [kind |-> "cursors", arg |-> <<1, 1, 2, 1>>]
  /\ Finished
  /\ GlobalValues["r2"].k = "multipleValue"
  /\ sameValue(GlobalValues["r2"].v[1], Num(1))
  /\ GlobalValues["r3"].k = "multipleValue"
  /\ sameValue(GlobalValues["r3"].v[1], Num(2))

-----------------------------------------------------------------------------
(* C13.  `and` and `or`.                                                   *)

\* The left operand decides: falsy for `and`, truthy for `or`.
LeftDecides(left, operator) ==
  IF operator = 1 THEN left \in {1, 2} ELSE left \in {3, 6, 7}

\* C13: when the left operand of `x = L and R` / `x = L or R` decides the
\* result, R is not evaluated - the call f() in it is not made (n stays 0)
\* and the undefined variable in it raises no error - and x is L's own
\* value.
ShortCircuit ==
  (scenario.kind = "logic" /\ LeftDecides(scenario.arg[1], scenario.arg[2])) =>
    /\ phase # "thrown"
    /\ Finished =>
         /\ GlobalIs("n", Num(0))
         /\ GlobalIs("x", OperandNode(scenario.arg[1]).value)

-----------------------------------------------------------------------------
(* C14.  Truth tests.                                                      *)

\* Lua's rule: everything but nil and false is true.
LuaTruthy(code) == code \notin {1, 2}

\* The value of operand `code` is what the global x holds.
HoldsOperand(code) ==
  /\ Bound("x")
  /\ CASE code = 8 -> GlobalValues["x"].k = "table"
       [] code = 9 -> GlobalValues["x"].k = "function"
       [] OTHER -> sameValue(GlobalValues["x"], OperandNode(code).value)

\* C14: in `not V`, `V and 1`, `V or 1` and the conditions of if, while and
\* repeat ... until, exactly nil and false count as false: 0, "", tables
\* and functions count as true.
TruthIsNotNilNotFalse ==
  scenario.kind = "truth" =>
    /\ phase # "thrown"
    /\ Finished =>
         LET v == scenario.arg[1]
             t == LuaTruthy(scenario.arg[1]) IN
         CASE scenario.arg[2] = 1 -> GlobalIs("x", Bool(~t))
           [] scenario.arg[2] = 2 ->
                IF t THEN GlobalIs("x", Num(1)) ELSE HoldsOperand(v)
           [] scenario.arg[2] = 3 ->
                IF t THEN HoldsOperand(v) ELSE GlobalIs("x", Num(1))
           [] scenario.arg[2] = 4 ->
                GlobalIs("x", Str(IF t THEN "then" ELSE "else"))
           [] scenario.arg[2] = 5 ->
                GlobalIs("x", Str(IF t THEN "body" ELSE "skipped"))
           [] scenario.arg[2] = 6 ->
                GlobalIs("n", Num(IF t THEN 1 ELSE 2))

-----------------------------------------------------------------------------
(* C15.  Keys by identity, primitive keys by equality.                     *)

\* C15: with two distinct tables (or functions) a and b as keys of t, a
\* read under a gives what was last stored under a, a read under b what was
\* last stored under b, and a read under a third, new table (function)
\* gives Nil; t has one entry for each of a, b stored under.  Equal strings
\* and equal numbers computed in different ways are one key: every read
\* gives the value stored last and t has one entry.
KeysByIdentity ==
  (scenario.kind = "keys" /\ Finished) =>
    LET sort == scenario.arg[1]
        stores == Tail(scenario.arg)
        used == {stores[j] : j \in 1..Len(stores)}
        t == st.tables[GlobalValues["t"].v] IN
    IF sort \in {1, 2}
      THEN /\ \A c \in 1..2 :
                GlobalIs(ReadName(c),
                         IF c \in used THEN Num(LastStored(stores, c)) ELSE Nil)
           /\ GlobalIs(ReadName(3), Nil)
           /\ Len(t) = Cardinality(used)
    ELSE /\ \A c \in 1..3 :
              GlobalIs(ReadName(c),
                       IF stores = <<>> THEN Nil ELSE Num(10 * Len(stores)))
         /\ Len(t) = IF stores = <<>> THEN 0 ELSE 1

\* t[ka()] = 10, t[kb()] = 20, t[ka()] = 30 with a and b two empty tables:
\* two entries, read back as 30 and 20.
TwoTablesTwoEntries ==
  /\ scenario = [kind |-> "keys", arg |-> <<1, 1, 2, 1>>]
  /\ Finished
  /\ GlobalIs(ReadName(1), Num(30))
  /\ GlobalIs(ReadName(2), Num(20))
  /\ Len(st.tables[GlobalValues["t"].v]) = 2

-----------------------------------------------------------------------------
(* C16.  The length operator.                                              *)

\* C16: #t is the largest n such that t holds the integer keys 1..n (0
\* without the key 1), whatever integer keys follow a gap and whatever
\* other keys t holds; a constructor of n list items has length n and a
\* string of n characters has length n.
LengthIsBorder ==
  scenario.kind = "length" =>
    /\ phase # "thrown"
    /\ Finished =>
         GlobalIs("x", Num(IF scenario.arg[1] = 1 THEN Prefix(Tail(scenario.arg))
                           ELSE scenario.arg[2]))

\* #{[1] = 10, [3] = 20} is 1.
LengthStopsAtGap ==
  /\ scenario = [kind |-> "length", arg |-> <<1, 1, 3>>]
  /\ Finished
  /\ GlobalIs("x", Num(1))

-----------------------------------------------------------------------------
(* C17.  Chains of operators.                                              *)

\* The node of `left op right`.
OperatorNode(op, left, right) ==
  CASE op \in {"and", "or"} -> LogicalExpression(op, left, right)
    [] op = ".." -> ConcatExpression(left, right)
    [] OTHER -> BinaryExpression(op, left, right)

\* C17: a chain `x = 8 op1 4 op2 2` of binary, logical and concatenation
\* operators parses without error to the assignment of the node
\* (8 op1 4) op2 2: the operators are folded left to right in encounter
\* order.
ChainFoldsLeft ==
  (scenario.kind = "chain" /\ phase # "parsing") =>
    nodes = << Set("x", OperatorNode(ChainOperators[scenario.arg[2]],
                          OperatorNode(ChainOperators[scenario.arg[1]],
                                       NumLit(8), NumLit(4)),
                          NumLit(2))) >>

-----------------------------------------------------------------------------
(* C18.  Well-formed input.                                                *)

\* The nodes a node of the parser's heap refers to.
References(node) ==
  LET type == node.type IN
  CASE type \in {"BinaryExpression", "LogicalExpression", "Assignment",
                 "ConcatExpression"} -> <<node.left, node.right>>
    [] type \in {"NotExpression", "LengthExpression"} -> <<node.operand>>
    [] type = "IndexProperty" -> <<node.table, node.property>>
    [] type = "ExpressionCall" -> <<node.id>> \o node.params
    [] type = "VariableDeclaration" -> <<node.identifier, node.value>>
    [] type = "MultipleValue" -> node.values
    [] type = "Table" -> node.properties
    [] type = "TableListItem" -> <<node.value>>
    [] type = "TableDictItem" -> <<node.key, node.value>>
    [] type = "If" -> <<node.condition>> \o node.body
    [] type = "NumericFor" ->
         <<node.variable, node.start, node.end>> \o node.body
           \o (IF node.step.step = "value" THEN <<node.step.node>> ELSE <<>>)
    [] type = "GenericFor" -> <<node.iterator>> \o node.variables \o node.body
    [] type \in {"While", "Repeat"} -> <<node.condition>> \o node.body
    [] OTHER -> <<>>

\* The places that hold the node n: fields of other nodes.
Holders(p, n) ==
  {<<m, i>> \in (1..Len(p.heap)) \X (1..Len(p.heap)) :
     /\ i <= Len(References(p.heap[m]))
     /\ References(p.heap[m])[i] = n}

\* C18: for a well-formed token sequence the parser ends without an error,
\* with the cursor on the last token, and the node made of an identifier or
\* literal token is held by one node only: no token was read into two
\* nodes.
ParserConsumesEveryTokenOnce ==
  (scenario.kind = "wellformed" /\ phase # "parsing") =>
    /\ ~failed(parser)
    /\ parser.currentTokenIndex = Len(parser.tokens) - 1
    /\ \A n \in 1..Len(parser.heap) :
         parser.heap[n].type \in {"Identifier", "Literal"} =>
           Cardinality(Holders(parser, n)) <= 1

-----------------------------------------------------------------------------
(* C19.  Malformed input.                                                  *)

\* C19: on a malformed token sequence the parser stops with an error: it
\* does not go round a loop for ever and it hands no AST to the
\* interpreter.
ParserRejectsMalformed ==
  (scenario.kind = "malformed" /\ phase # "parsing") =>
    /\ failed(parser)
    /\ parser.error # Diverges
    /\ phase = "thrown"
    /\ nodes = <<>>

-----------------------------------------------------------------------------
(* C20.  Bracketed keys.                                                   *)

\* C20: with k bound to K, the constructor item [k] = 1 and the write
\* t[k] = 1 store under the key K, and the read t[k] reads the key K: the
\* value is found under t[K] and nothing is stored under the string "k",
\* which t.k reads.
BracketKeyIsEvaluated ==
  scenario.kind = "bracket" =>
    /\ phase # "thrown"
    /\ Finished =>
         /\ GlobalIs("x", Num(1))
         /\ GlobalIs("y", Nil)

-----------------------------------------------------------------------------
(* C21.  An environment for every iteration.                               *)

\* C21: the closures created in the first and in the second iteration of a
\* loop capture different environments: each counts its own local c
\* (a = f1() and b = f2() are both 1), and each updates its own loop
\* variable (a = 1 + 10, b = 2 + 10).
IterationsHaveOwnEnvironment ==
  scenario.kind = "iteration" =>
    /\ phase # "thrown"
    /\ Finished =>
         IF scenario.arg[2] = 1
           THEN GlobalIs("a", Num(1)) /\ GlobalIs("b", Num(1))
         ELSE GlobalIs("a", Num(11)) /\ GlobalIs("b", Num(12))

-----------------------------------------------------------------------------
(* C22.  Empty bodies.                                                     *)

\* What the programs of EmptyBodyPrograms are to parse to.
EmptyBodyExpected ==
  << << WhileNode(Id("x"), <<>>), Set("y", NumLit(1)) >>,
     << NumericFor("i", NumLit(1), NumLit(2), NoStep, <<>>), Set("y", NumLit(1)) >>,
     << IfNode(Id("x"), <<>>, NoElse), Set("y", NumLit(1)) >>,
     << IfNode(Id("x"), << Set("y", NumLit(2)) >>, ElseList(<<>>)),
        Set("z", NumLit(3)) >>,
     << NamedFunction("f", <<>>, <<>>, FALSE), Set("y", NumLit(1)) >>,
     << IfNode(Id("x"), <<>>, ElseList(<< Set("y", NumLit(1)) >>)) >>,
     << IfNode(Id("x"), <<>>,
               ElseIf(IfNode(Id("w"), << Set("y", NumLit(1)) >>, NoElse))) >>,
     << RepeatNode(<<>>, Id("x")) >> >>

\* C22: a construct with an empty body parses without error to the node
\* with the empty statement list, and what follows the body is parsed as
\* after a non-empty body: the else / elseif branch is attached to the If
\* node, `until` is followed by its condition, the next statement stays in
\* the enclosing block.
EmptyBodyParses ==
  (scenario.kind = "emptybody" /\ phase # "parsing") =>
    /\ ~failed(parser)
    /\ nodes = EmptyBodyExpected[scenario.arg[1]]

-----------------------------------------------------------------------------
(* C23.  The if / elseif / else chain.                                     *)

\* What the chain writes from its j-th condition on: the condition, then
\* its body if it is true, else the rest of the chain; the else body, if
\* there is one, after the last condition.
RECURSIVE ChainLog(_, _, _)
ChainLog(values, j, else) ==
  IF j > Len(values) THEN (IF else = 1 THEN "e" ELSE "")
  ELSE ToString(j) \o (IF values[j] = 1 THEN ChainBodies[j]
                       ELSE ChainLog(values, j + 1, else))

\* The body the chain runs: of the first true condition, else "e", else none.
RECURSIVE ChainBody(_, _, _)
ChainBody(values, j, else) ==
  IF j > Len(values) THEN (IF else = 1 THEN "e" ELSE "")
  ELSE IF values[j] = 1 THEN ChainBodies[j]
  ELSE ChainBody(values, j + 1, else)

\* C23: the chain evaluates its conditions in source order up to the first
\* true one, runs the body of that one and nothing else, runs the else body
\* when all are false, and no body when there is no else; the same chain
\* given as tokens parses and runs to the same body.
IfChainRunsOneBody ==
  /\ scenario.kind = "ifchain" =>
       /\ phase # "thrown"
       /\ Finished =>
            GlobalIs("log", Str(ChainLog(SubSeq(scenario.arg, 1, 3), 1,
                                         scenario.arg[4])))
  /\ scenario.kind = "iftokens" =>
       /\ phase # "thrown"
       /\ Finished =>
            LET body == ChainBody(SubSeq(scenario.arg, 1, 3), 1, scenario.arg[4]) IN
            IF body = "" THEN ~Bound("r") ELSE GlobalIs("r", Str(body))

\* false, true, true with an else: the conditions 1 and 2 were evaluated,
\* the body b ran, the condition 3 and the else body did not.
IfChainStoppedAtSecond ==
  /\ scenario = [kind |-> "ifchain", arg |-> <<0, 1, 1, 1>>]
  /\ Finished
  /\ GlobalIs("log", Str("12b"))

-----------------------------------------------------------------------------
(* C24.  Multi-target assignment.                                          *)

\* C24: after `v1, v2 = v2, v1`, in whatever scope it ran, the bindings
\* declared at top level hold each other's previous values and no other
\* environment binds v1 or v2; `g1, g2 = 1, 2` with no binding on the chain
\* creates the globals g1 and g2.
SwapWritesExistingBindings ==
  scenario.kind = "swap" =>
    /\ phase # "thrown"
    /\ Finished =>
         IF scenario.arg[1] = 4
           THEN GlobalIs("g1", Num(1)) /\ GlobalIs("g2", Num(2))
         ELSE /\ GlobalIs("v1", Num(20))
              /\ GlobalIs("v2", Num(10))
              /\ \A e \in 1..Len(st.envs) :
                   e # globalEnv =>
                     {"v1", "v2"} \cap DOMAIN st.envs[e].values = {}

-----------------------------------------------------------------------------
(* C25.  Declarations with fewer values than names.                        *)

\* C25: a local declaration of several names binds every name, the names
\* beyond the values to Nil, and does not fail: `local a, b, c = 1, 2`
\* binds 1, 2, Nil; `local a, b` binds Nil, Nil; `local a, b = 1` binds
\* 1, Nil; `local a, b = print()` binds Nil, Nil.
DeclarationPadsWithNil ==
  scenario.kind = "short" =>
    /\ phase # "thrown"
    /\ Finished =>
         CASE scenario.arg[1] = 1 ->
                GlobalIs("a", Num(1)) /\ GlobalIs("b", Num(2)) /\ GlobalIs("c", Nil)
           [] scenario.arg[1] = 2 -> GlobalIs("a", Nil) /\ GlobalIs("b", Nil)
           [] scenario.arg[1] = 3 -> GlobalIs("a", Num(1)) /\ GlobalIs("b", Nil)
           [] scenario.arg[1] = 4 -> GlobalIs("a", Nil) /\ GlobalIs("b", Nil)

-----------------------------------------------------------------------------
(* C26.  The variables of a generic for.                                   *)

\* C26: a generic for with one, two or three loop variables parses to one
\* GenericFor node with those variables and runs its body with the first
\* variable bound to the key; with an iterator that yields one value a
\* round the first variable holds that value and the second Nil.
GenericForVariables ==
  /\ scenario.kind = "genfor" =>
       /\ phase # "thrown"
       /\ phase # "parsing" =>
            /\ Len(nodes) = 2
            /\ nodes[2].type = "GenericFor"
            /\ Len(nodes[2].variables) = scenario.arg[1]
       /\ Finished => GlobalIs("r", Num(1))
  /\ scenario.kind = "single" =>
       /\ phase # "thrown"
       /\ Finished => GlobalIs("ra", Num(20)) /\ GlobalIs("rb", Nil)

-----------------------------------------------------------------------------
(* C27.  The statements of a block.                                        *)

\* What the programs of BlockPrograms are to parse to.
BlockExpected ==
  << << WhileNode(Id("x"), << Call0("a"), Call0("b") >>), Call0("c") >>,
     << IfNode(Id("x"), << Call0("a"), Call0("b") >>, ElseList(<< Call0("c") >>)),
        Call0("d") >>,
     << WhileNode(Id("x"), << IfNode(Id("y"), << Call0("a") >>, NoElse),
                              Call0("b") >>),
        Call0("c") >>,
     << WhileNode(Id("x"), << WhileNode(Id("y"), << Call0("a") >>),
                              Call0("b") >>),
        Call0("c") >>,
     << Assignment(IndexProperty(Id("t"), NumLit(1)), NumLit(2)) >> >>

\* C27: every block holds the statements between its opener and its own
\* terminator, in order, once: the statement after a nested block is in
\* the enclosing block, and a write to t[1] is one statement.
BlocksHoldTheirStatements ==
  (scenario.kind = "blocks" /\ phase # "parsing") =>
    /\ ~failed(parser)
    /\ nodes = BlockExpected[scenario.arg[1]]

-----------------------------------------------------------------------------
(* C28.  Functions as statements and values.                               *)

\* C28: a function parses to its Function node - the first statement of
\* the program for `function f() ... end`, the value of the declaration
\* for `local f = function() ... end`, the value of the Return for
\* `return function() ... end` - and the programs run: f() prints 1,
\* print(f()) prints 1, the closure made by the counter factory prints 1.
FunctionParsesToItsNode ==
  scenario.kind = "function" =>
    /\ phase # "thrown"
    /\ phase # "parsing" =>
         /\ Len(nodes) >= 1
         /\ CASE scenario.arg[1] = 3 ->
                   /\ nodes[1].type = "VariableDeclaration"
                   /\ nodes[1].value.type = "Function"
              [] scenario.arg[1] = 5 ->
                   /\ nodes[1].type = "Return"
                   /\ nodes[1].value.type = "Function"
              [] OTHER -> nodes[1].type = "Function"
    /\ Finished =>
         st.out = IF scenario.arg[1] \in {1, 5} THEN <<>> ELSE <<"1">>

-----------------------------------------------------------------------------
(* C29.  One evaluation of the right-hand side.                            *)

\* C29: when the assignment has been executed, the function called on its
\* right-hand side has run once: calls = 1, and the first target holds the
\* value of that one call.
AssignmentEvaluatesOnce ==
  scenario.kind = "once" =>
    /\ phase # "thrown"
    /\ Finished =>
         /\ GlobalIs("calls", Num(1))
         /\ CASE scenario.arg[1] = 1 -> GlobalIs("x", Num(1))
              [] scenario.arg[1] = 2 ->
                   sameValue(getFromTable(st, GlobalValues["t"], Num(1)), Num(1))
              [] OTHER -> GlobalIs("a", Num(1)) /\ GlobalIs("b", Num(5))

-----------------------------------------------------------------------------
(* C30.  Operands of the comparison operators.                             *)

\* C30: `x = L == R` and `x = L ~= R` raise no error for operands of any
\* kind and leave a Boolean in x; `x = L + R` and `x = L < R` raise an
\* error exactly when an operand is not a Number, and then x stays
\* unbound.
EqualityAcceptsEveryKind ==
  scenario.kind = "compare" =>
    LET numeric == scenario.arg[1] = 6 /\ scenario.arg[3] = 6 IN
    IF CompareOperators[scenario.arg[2]] \in {"==", "~="}
      THEN /\ phase # "thrown"
           /\ Finished => Bound("x") /\ GlobalValues["x"].k = "boolean"
    ELSE IF numeric THEN phase # "thrown"
    ELSE phase # "done" /\ ~Bound("x")

====
